---- MODULE Spec2Model ----
(***************************************************************************)
(* A model of tiamat, a command-line tool that compares branches, opens    *)
(* pull requests, cuts releases and posts notifications.                   *)
(*                                                                         *)
(* Python strings are modelled as sequences of one-character strings, so   *)
(* that `in`, `split` and indexing are computed as the code computes them. *)
(* A value that the code only tests for truthiness (an optional argument,  *)
(* a message that starts as None) is modelled by the empty sequence when   *)
(* it is falsy.                                                            *)
(***************************************************************************)
EXTENDS Integers, Sequences, FiniteSets

VARIABLES
    GITHUB_TOKEN,       \* services.github.GITHUB_TOKEN: TRUE when set
    REPOSITORIES,       \* main.REPOSITORIES: sequence of strings
    FE_REPOSITORIES,    \* main.FE_REPOSITORIES: sequence of strings
    SLACK,              \* which of SLACK_WEBHOOK_URL / SLACK_BOT_TOKEN is set
    run,                \* number of command lines dispatched so far
    pc,                 \* position of the running command
    command,            \* the command line being run: handler and arguments
    base_branch,        \* local of check / createpr
    head_branch,        \* local of check / createpr
    repo_full,          \* result of resolve_repo (a tagged value)
    idx,                \* position of the `for` loop that is running
    has_commits,        \* local of createpr
    notifications,      \* local of createpr: [fe |-> message, be |-> message]
    current_version,    \* local of bump
    bump_type,          \* local of bump
    new_version,        \* local of bump (a tagged value)
    name,               \* local of bump
    body,               \* local of bump
    trace,              \* everything the command did: calls, prompts, prints
    outcome,            \* how the command ended
    ctx,                \* ctx.obj, the TiamatContext of the command line
    created_before,     \* history: an earlier command line of the session
                        \* created a pull request
    WORKFLOW_PRESETS    \* the module-level dict of commands/actions.py

vars == <<GITHUB_TOKEN, REPOSITORIES, FE_REPOSITORIES, SLACK, run, pc, command,
          base_branch, head_branch, repo_full, idx, has_commits, notifications,
          current_version, bump_type, new_version, name, body, trace, outcome,
          ctx, created_before, WORKFLOW_PRESETS>>

config == <<GITHUB_TOKEN, REPOSITORIES, FE_REPOSITORIES, SLACK>>
prLocals == <<base_branch, head_branch, has_commits, notifications>>
bumpLocals == <<current_version, bump_type, new_version, name, body>>

(***************************************************************************)
(* Bounds of the model.                                                    *)
(***************************************************************************)
MaxInputLen == 2    \* longest repository name typed by the operator
MaxKnown == 2       \* longest configured list in the resolver's own check
MaxPart == 10       \* largest version component returned by the host
MaxRuns == 2        \* command lines per shell session
MaxSpecLen == 5     \* longest compare spec in the parser's own check

(***************************************************************************)
(* Python string operations.                                               *)
(***************************************************************************)
\* sub in s, as the position of the first occurrence (0 when there is none)
Find(s, sub) ==
    LET hits == {j \in 1..(Len(s) - Len(sub) + 1) :
                    \A t \in 1..Len(sub) : s[j + t - 1] = sub[t]}
    IN IF hits = {} THEN 0 ELSE CHOOSE j \in hits : \A h \in hits : j <= h

\* sub in s
In(sub, s) == Find(s, sub) # 0

\* s.split(sub, 1), used only where sub in s
SplitOnce(s, sub) ==
    LET j == Find(s, sub)
    IN <<SubSeq(s, 1, j - 1), SubSeq(s, j + Len(sub), Len(s))>>

\* s.split(c) for a one-character separator
RECURSIVE Split(_, _)
Split(s, c) ==
    IF ~In(<<c>>, s) THEN <<s>>
    ELSE LET j == Find(s, <<c>>)
         IN <<SubSeq(s, 1, j - 1)>> \o Split(SubSeq(s, j + 1, Len(s)), c)

\* All strings over an alphabet up to a length
RECURSIVE StringsUpTo(_, _)
StringsUpTo(alphabet, n) ==
    IF n = 0 THEN {<<>>}
    ELSE LET shorter == StringsUpTo(alphabet, n - 1)
         IN shorter \cup {Append(s, c) : s \in shorter, c \in alphabet}

\* All sequences over a set up to a length
RECURSIVE SeqsUpTo(_, _)
SeqsUpTo(S, n) ==
    IF n = 0 THEN {<<>>}
    ELSE LET shorter == SeqsUpTo(S, n - 1)
         IN shorter \cup {Append(s, x) : s \in shorter, x \in S}

(***************************************************************************)
(* Tagged values: what a Python expression produced.                       *)
(***************************************************************************)
Ok(v) == [tag |-> "ok", val |-> v]
None == [tag |-> "none", val |-> <<>>]
IndexError == [tag |-> "raise", val |-> <<>>]
Unset == [tag |-> "unset", val |-> <<>>]
Truthy(x) == x.tag = "ok" /\ x.val # <<>>

(***************************************************************************)
(* Repository resolution.                                                  *)
(***************************************************************************)
\* [r for r in REPOSITORIES if r.split("/")[1] == repo_input]; the index
\* [1] raises IndexError on an entry without "/"
SplitRaises == \E j \in 1..Len(REPOSITORIES) : Len(Split(REPOSITORIES[j], "/")) < 2

matching_repos(repo_input) ==
    LET Matches(r) == Split(r, "/")[2] = repo_input
    IN SelectSeq(REPOSITORIES, Matches)

\* resolve_repo returning the last match instead of the first
resolve_repo_last_match(repo_input) ==
    IF ~In(<<"/">>, repo_input)
    THEN IF SplitRaises THEN IndexError
         ELSE IF matching_repos(repo_input) # <<>>
              THEN Ok(matching_repos(repo_input)[Len(matching_repos(repo_input))])
              ELSE Ok(repo_input)
    ELSE Ok(repo_input)

\* main.py resolve_repo
resolve_repo(repo_input) ==
    IF ~In(<<"/">>, repo_input)
    THEN IF SplitRaises THEN IndexError
         ELSE IF matching_repos(repo_input) # <<>>
              THEN Ok(matching_repos(repo_input)[1])
              ELSE Ok(repo_input)
    ELSE Ok(repo_input)

\* commands/release.py resolve_repo
release_resolve_repo(repo_input) ==
    IF repo_input = <<>> THEN None
    ELSE IF ~In(<<"/">>, repo_input)
         THEN IF SplitRaises THEN IndexError
              ELSE IF matching_repos(repo_input) # <<>>
                   THEN Ok(matching_repos(repo_input)[1])
                   ELSE Ok(repo_input)
         ELSE Ok(repo_input)

\* commands/actions.py resolve_repo
actions_resolve_repo(repo_input) ==
    IF repo_input = <<>> THEN None
    ELSE IF ~In(<<"/">>, repo_input)
         THEN IF SplitRaises THEN IndexError
              ELSE IF matching_repos(repo_input) # <<>>
                   THEN Ok(matching_repos(repo_input)[1])
                   ELSE Ok(repo_input)
         ELSE Ok(repo_input)

\* commands/merge.py resolve_repo
merge_resolve_repo(repo_input) ==
    IF repo_input = <<>> THEN None
    ELSE IF ~In(<<"/">>, repo_input)
         THEN IF SplitRaises THEN IndexError
              ELSE IF matching_repos(repo_input) # <<>>
                   THEN Ok(matching_repos(repo_input)[1])
                   ELSE Ok(repo_input)
         ELSE Ok(repo_input)

(***************************************************************************)
(* Version bumping (GitHubService.bump_version).                           *)
(***************************************************************************)
Digits == <<"0", "1", "2", "3", "4", "5", "6", "7", "8", "9">>
IsDigit(c) == \E d \in 1..10 : Digits[d] = c
DigitVal(c) == (CHOOSE d \in 1..10 : Digits[d] = c) - 1

\* str(n) for a non-negative integer
RECURSIVE str(_)
str(n) ==
    IF n < 10 THEN <<Digits[n + 1]>>
    ELSE str(n \div 10) \o <<Digits[(n % 10) + 1]>>

\* int(s) for a string of decimal digits
RECURSIVE int(_)
int(s) ==
    IF Len(s) = 1 THEN DigitVal(s[1])
    ELSE 10 * int(SubSeq(s, 1, Len(s) - 1)) + DigitVal(s[Len(s)])

IsNumeric(s) == s # <<>> /\ \A j \in 1..Len(s) : IsDigit(s[j])

BumpKinds == {"major", "minor", "patch"}
MalformedVersion == [tag |-> "raise", val |-> <<"MalformedVersion">>]

HasPrefix(version) == version # <<>> /\ version[1] = "v"
VersionParts(version) ==
    Split(IF HasPrefix(version) THEN Tail(version) ELSE version, ".")
WellFormedVersion(version) ==
    /\ Len(VersionParts(version)) = 3
    /\ \A j \in 1..3 : IsNumeric(VersionParts(version)[j])
\* the (major, minor, patch) triple of a well-formed version string
ParseVersion(version) ==
    [j \in 1..3 |-> int(VersionParts(version)[j])]
\* the string form of a triple
FormatVersion(prefixed, t) ==
    (IF prefixed THEN <<"v">> ELSE <<>>)
        \o str(t[1]) \o <<".">> \o str(t[2]) \o <<".">> \o str(t[3])

\* bump_version with a minor bump that keeps the patch number
bump_version_keep_patch(version, kind) ==
    IF ~WellFormedVersion(version) THEN MalformedVersion
    ELSE LET t == ParseVersion(version)
             next == CASE kind = "major" -> <<t[1] + 1, 0, 0>>
                       [] kind = "minor" -> <<t[1], t[2] + 1, t[3]>>
                       [] kind = "patch" -> <<t[1], t[2], t[3] + 1>>
         IN Ok(FormatVersion(HasPrefix(version), next))

\* bump_version with a major bump that only resets minor and patch
bump_version_major_reset_only(version, kind) ==
    IF ~WellFormedVersion(version) THEN MalformedVersion
    ELSE LET t == ParseVersion(version)
             next == CASE kind = "major" -> <<t[1], 0, 0>>
                       [] kind = "minor" -> <<t[1], t[2] + 1, 0>>
                       [] kind = "patch" -> <<t[1], t[2], t[3] + 1>>
         IN Ok(FormatVersion(HasPrefix(version), next))

bump_version(version, kind) ==
    IF ~WellFormedVersion(version) THEN MalformedVersion
    ELSE LET t == ParseVersion(version)
             next == CASE kind = "major" -> <<t[1] + 1, 0, 0>>
                       [] kind = "minor" -> <<t[1], t[2] + 1, 0>>
                       [] kind = "patch" -> <<t[1], t[2], t[3] + 1>>
         IN Ok(FormatVersion(HasPrefix(version), next))

(***************************************************************************)
(* Configuration read from the environment at start-up.                    *)
(***************************************************************************)
DEFAULT_BASE_BRANCH == <<"m", "a", "i", "n">>
DEFAULT_HEAD_BRANCH == <<"r", "e", "l", "e", "a", "s", "e">>

RepoA == <<"o", "/", "a">>
RepoB == <<"o", "/", "b">>
RepoC == <<"o", "/", "c">>
\* os.getenv(..., "").split(",") of an unset variable is [""]
UnsetList == << <<>> >>

RepositoryConfigs == {<<RepoA, RepoB, RepoC>>, UnsetList}
FrontendConfigs == {UnsetList, <<RepoA, RepoC>>}
SlackConfigs == {"none", "webhook", "token"}

\* main.py is_fe_repo
\* a test against the first configured frontend repository only
is_fe_repo_first_only(repo) == repo = FE_REPOSITORIES[1]
is_fe_repo(repo) == \E j \in 1..Len(FE_REPOSITORIES) : FE_REPOSITORIES[j] = repo

(***************************************************************************)
(* The record of what a command did, in order.                             *)
(***************************************************************************)
Ev(op, repo, arg, res) == [op |-> op, repo |-> repo, arg |-> arg, res |-> res]
rprint(what, about) == Ev("print", about, what, TRUE)

GitHubOps == {"get_pending_commits", "create_pull_request", "get_latest_version",
              "create_release", "list_releases", "merge_pr", "list_workflows",
              "trigger_workflow"}


NoUrl == <<>>
\* the URL the hosting service returns for a pull request it created
PrUrl(repo) == <<"u", "r", "l", ":">> \o repo \o <<"#">> \o str(run)

\* a notification message: its first line, the repository that line names
\* (single-repository run only) and the URL lines that follow
Message(header, about, urls) == [header |-> header, about |-> about, urls |-> urls]
\* notifications = {"fe": None, "be": None}
NoMessage == Message("", <<>>, <<>>)
Keys == <<"fe", "be">>

(***************************************************************************)
(* GitHubService.get_pending_commits: the comparison found commits, found  *)
(* none, or failed; a failure is printed by the service and the caller     *)
(* gets a result that says no commits.                                     *)
(***************************************************************************)
ComparisonResults == {"commits", "none", "failed"}
get_pending_commits(repo, base, head, display_table, result) ==
    <<Ev("get_pending_commits", repo,
         [base |-> base, head |-> head, display_table |-> display_table],
         result = "commits")>>
    \o IF result = "failed" THEN <<rprint("Comparison failed", repo)>> ELSE <<>>

(***************************************************************************)
(* Branch-spec parsing of check and createpr.                              *)
(***************************************************************************)
Dots3 == <<".", ".", ".">>
Dots2 == <<".", ".">>

\* the two tests in the other order
ParseCompareSpec_two_dots_first(ctx_base, ctx_head, compare_spec) ==
    IF compare_spec # <<>>
    THEN IF In(Dots2, compare_spec) THEN SplitOnce(compare_spec, Dots2)
         ELSE IF In(Dots3, compare_spec) THEN SplitOnce(compare_spec, Dots3)
         ELSE <<ctx_base, ctx_head>>
    ELSE <<ctx_base, ctx_head>>
ParseCompareSpec(ctx_base, ctx_head, compare_spec) ==
    IF compare_spec # <<>>
    THEN IF In(Dots3, compare_spec) THEN SplitOnce(compare_spec, Dots3)
         ELSE IF In(Dots2, compare_spec) THEN SplitOnce(compare_spec, Dots2)
         ELSE <<ctx_base, ctx_head>>
    ELSE <<ctx_base, ctx_head>>

CompareSpecs ==
    { <<>>,
      <<"m", ".", ".", ".", "r">>,
      <<"m", ".", ".", "r">>,
      <<"m", ".", ".", ".">>,
      <<"w">> }
RepoArgs == { <<>>, <<"b">>, RepoA, <<"z">> }
\* the values of the global options --base and --head: not given, or given
BaseFlags == { DEFAULT_BASE_BRANCH, <<"d">> }
HeadFlags == { DEFAULT_HEAD_BRANCH, <<"h">> }
\* click fills the positional arguments left to right: a repo argument is
\* present only when a compare spec is
Positional(compare_spec, repo) == repo # <<>> => compare_spec # <<>>

(***************************************************************************)
(* The workflow presets of commands/actions.py.                            *)
(***************************************************************************)
Region == <<"r", "e", "g", "i", "o", "n">>
Stage == <<"s", "t", "a", "g", "e">>
\* the dict literal WORKFLOW_PRESETS is bound to when the module is loaded
PresetTable ==
    [deploy |->
        [staging |-> [workflow |-> "deploy.preview.manual.yml",
                      inputs |-> << <<Region, <<"e", "u">> >>,
                                    <<Stage, <<"s", "t", "a", "g", "i", "n", "g">> >> >>,
                      branch |-> "release"],
         prod |-> [workflow |-> "deploy.live.manual.yml", inputs |-> <<>>,
                   branch |-> "main"],
         demo |-> [workflow |-> "deploy.preview.demo.yml", inputs |-> <<>>,
                   branch |-> "release"]],
     migrate |->
        [staging |-> [workflow |-> "test.yml",
                      inputs |-> << << <<"t", "y", "p", "e">>, <<"u", "n", "i", "t">> >>,
                                    << <<"c", "o", "v">>, <<"t", "r", "u", "e">> >> >>,
                      branch |-> "develop"]]]

\* one command is registered for each preset of the table when the module
\* is loaded
PresetNames == DOMAIN PresetTable

(***************************************************************************)
(* The initial state: configuration loaded, no command run yet.            *)
(***************************************************************************)
NoCommand == [handler |-> "none"]
\* class TiamatContext: the two branch names a command line runs with
TiamatContext(base, head) == [base_branch |-> base, head_branch |-> head]
IdleLocals ==
    /\ base_branch = DEFAULT_BASE_BRANCH
    /\ head_branch = DEFAULT_HEAD_BRANCH
    /\ repo_full = Unset
    /\ idx = 0
    /\ has_commits = FALSE
    /\ notifications = [fe |-> NoMessage, be |-> NoMessage]
    /\ current_version = <<>>
    /\ bump_type = "minor"
    /\ new_version = Unset
    /\ name = <<>>
    /\ body = <<>>
    /\ trace = <<>>
    /\ outcome = "none"
    /\ ctx = TiamatContext(DEFAULT_BASE_BRANCH, DEFAULT_HEAD_BRANCH)
    /\ created_before = FALSE
    /\ WORKFLOW_PRESETS = PresetTable

Init ==
    /\ GITHUB_TOKEN \in BOOLEAN
    /\ REPOSITORIES \in RepositoryConfigs
    /\ FE_REPOSITORIES \in FrontendConfigs
    /\ SLACK \in SlackConfigs
    /\ run = 0
    /\ pc = "prompt"
    /\ command = NoCommand
    /\ IdleLocals

\* the shell (or the process entry point) is ready to dispatch a command line
Ready == pc = "prompt" /\ run < MaxRuns

\* a command starts with fresh locals
FreshBump ==
    /\ current_version' = <<>>
    /\ bump_type' = "minor"
    /\ new_version' = Unset
    /\ name' = <<>>
    /\ body' = <<>>
FreshPr ==
    /\ base_branch' = DEFAULT_BASE_BRANCH
    /\ head_branch' = DEFAULT_HEAD_BRANCH
    /\ has_commits' = FALSE
    /\ notifications' = [fe |-> NoMessage, be |-> NoMessage]

\* the group callback: ctx.obj holds the values of --base and --head, which
\* default to DEFAULT_BASE_BRANCH and DEFAULT_HEAD_BRANCH
\* the group callback leaving the context as the class initialises it
cli_ignore_options(base, head) ==
    ctx' = TiamatContext(DEFAULT_BASE_BRANCH, DEFAULT_HEAD_BRANCH)
cli(base, head) == ctx' = TiamatContext(base, head)
\* a command line of a command that never reads ctx.obj
cli_defaults == cli(DEFAULT_BASE_BRANCH, DEFAULT_HEAD_BRANCH)

TokenNotSet == <<rprint("GITHUB_TOKEN is not set", <<>>)>>

(***************************************************************************)
(* SlackService.send_message.                                              *)
(***************************************************************************)
SLACK_BE_DEVELOPERS == <<"U_BE1", "U_BE2">>
SLACK_FE_DEVELOPERS == <<"U_FE1">>

is_configured == SLACK # "none"

\* what the HTTP endpoint can answer
WebhookResponses == {"200", "500", "exception"}
ApiResponses == {"200 ok", "200 error", "500", "exception"}
Responses == IF SLACK = "webhook" THEN WebhookResponses
             ELSE IF SLACK = "token" THEN ApiResponses
             ELSE {"unused"}

\* the two tests made one after the other, each adding its mentions
Tagged_each_flag(message, tag_be_developers, tag_fe_developers) ==
    [mentions |-> (IF tag_be_developers THEN SLACK_BE_DEVELOPERS ELSE <<>>)
                  \o (IF tag_be_developers \/ tag_fe_developers
                      THEN SLACK_FE_DEVELOPERS ELSE <<>>),
     message |-> message]
\* the text that is posted: the mentions that prefix it, then the message
Tagged(message, tag_be_developers, tag_fe_developers) ==
    [mentions |-> IF tag_be_developers THEN SLACK_BE_DEVELOPERS
                  ELSE IF tag_fe_developers THEN SLACK_FE_DEVELOPERS
                  ELSE <<>>,
     message |-> message]

\* the events of one call of send_message, given the endpoint's answer
send_message(message, tag_be_developers, tag_fe_developers, response) ==
    LET call(res) == Ev("send_message", <<>>,
                        [message |-> message, tag_be |-> tag_be_developers,
                         tag_fe |-> tag_fe_developers], res)
        text == Tagged(message, tag_be_developers, tag_fe_developers)
    IN IF ~is_configured
       THEN <<call(FALSE), rprint("Slack not configured", <<>>)>>
       ELSE IF SLACK = "webhook"
       THEN <<call(response = "200"),
              Ev("requests.post", <<>>, text, response),
              rprint(IF response = "200" THEN "Slack message sent"
                     ELSE IF response = "exception" THEN "Error sending Slack message"
                     ELSE "Failed to send Slack message", <<>>)>>
       ELSE <<call(response = "200 ok"),
              Ev("requests.post", <<>>, text, response),
              rprint(IF response = "200 ok" THEN "Slack message sent"
                     ELSE IF response = "200 error" THEN "Slack API error"
                     ELSE IF response = "exception" THEN "Error sending Slack message"
                     ELSE "Failed to send Slack message", <<>>)>>

(***************************************************************************)
(* createpr.                                                               *)
(***************************************************************************)
\* the repository the running check / createpr is working on
SingleRepo == command.repo # <<>>
\* the loop walking the list from its end
CurrentRepo_reversed ==
    IF SingleRepo THEN repo_full.val
    ELSE REPOSITORIES[Len(REPOSITORIES) + 1 - idx]
CurrentRepo == IF SingleRepo THEN repo_full.val ELSE REPOSITORIES[idx]
\* where the loop over REPOSITORIES goes after the current repository
LoopDone == SingleRepo \/ idx >= Len(REPOSITORIES)

\* the dictionary of the command that ran before, had createpr not bound
\* its own
StaleNotifications == notifications
\* notifications = {"fe": None, "be": None}
FreshNotifications == [fe |-> NoMessage, be |-> NoMessage]

\* createpr up to its first comparison: the token check, the branch spec
\* and the empty notification buckets
createpr_start(base, head, compare_spec, repo) ==
    /\ Ready
    /\ Positional(compare_spec, repo)
    /\ run' = run + 1
    /\ command' = [handler |-> "createpr", base |-> base, head |-> head,
                   compare_spec |-> compare_spec, repo |-> repo]
    /\ cli(base, head)
    /\ FreshBump
    /\ IF ~GITHUB_TOKEN
       THEN /\ trace' = TokenNotSet
            /\ pc' = "done"
            /\ outcome' = "returned"
            /\ FreshPr
            /\ repo_full' = Unset
            /\ idx' = 0
       ELSE /\ base_branch' = ParseCompareSpec(ctx'.base_branch, ctx'.head_branch, compare_spec)[1]
            /\ head_branch' = ParseCompareSpec(ctx'.base_branch, ctx'.head_branch, compare_spec)[2]
            /\ has_commits' = FALSE
            /\ notifications' = FreshNotifications
            /\ trace' = <<>>
            /\ IF repo # <<>>
               THEN /\ repo_full' = resolve_repo(repo)
                    /\ idx' = 0
                    /\ IF resolve_repo(repo).tag = "raise"
                       THEN pc' = "done" /\ outcome' = "raised"
                       ELSE pc' = "createpr_compare" /\ outcome' = "running"
               ELSE /\ repo_full' = Unset
                    /\ idx' = 1
                    /\ pc' = "createpr_compare"
                    /\ outcome' = "running"
    /\ UNCHANGED <<config, created_before, WORKFLOW_PRESETS>>

\* createpr_compare with the `if has_commits:` test lost
createpr_compare_unconditional ==
    /\ pc = "createpr_compare"
    /\ \E result \in ComparisonResults :
        /\ has_commits' = (result = "commits")
        /\ trace' = trace \o get_pending_commits(CurrentRepo, base_branch,
                                                 head_branch, FALSE, result)
        /\ pc' = "createpr_create" /\ idx' = idx
    /\ UNCHANGED <<config, run, command, ctx, created_before, WORKFLOW_PRESETS, base_branch, head_branch, repo_full,
                   notifications, bumpLocals, outcome>>

\* has_commits = GitHubService.get_pending_commits(repo, base, head, display_table=False)
createpr_compare ==
    /\ pc = "createpr_compare"
    /\ \E result \in ComparisonResults :
        /\ has_commits' = (result = "commits")
        /\ trace' = trace \o get_pending_commits(CurrentRepo, base_branch,
                                                 head_branch, FALSE, result)
        /\ IF result = "commits"
           THEN pc' = "createpr_create" /\ idx' = idx
           ELSE IF LoopDone
                THEN pc' = "createpr_flush" /\ idx' = 1
                ELSE pc' = "createpr_compare" /\ idx' = idx + 1
    /\ UNCHANGED <<config, run, command, ctx, created_before, WORKFLOW_PRESETS, base_branch, head_branch, repo_full,
                   notifications, bumpLocals, outcome>>

\* the new URL added to the bucket of each audience
Accumulate_both(repo, pr_url) ==
    [key \in {"fe", "be"} |->
        IF notifications[key] # NoMessage
        THEN [notifications[key] EXCEPT !.urls = Append(@, pr_url)]
        ELSE Message("New PRs have been created:", <<>>, <<pr_url>>)]

\* the new URL put in front of the lines already in the bucket
Accumulate_prepend(repo, pr_url) ==
    LET key == IF is_fe_repo(repo) THEN "fe" ELSE "be"
    IN IF SingleRepo
       THEN [notifications EXCEPT
                ![key] = Message("A new PR has been created for", repo, <<pr_url>>)]
       ELSE IF notifications[key] # NoMessage
            THEN [notifications EXCEPT ![key].urls = <<pr_url>> \o @]
            ELSE [notifications EXCEPT
                    ![key] = Message("New PRs have been created:", <<>>, <<pr_url>>)]

\* the bucket of a repository after its pull request was created
Accumulate(repo, pr_url) ==
    LET key == IF is_fe_repo(repo) THEN "fe" ELSE "be"
    IN IF SingleRepo
       THEN [notifications EXCEPT
                ![key] = Message("A new PR has been created for", repo, <<pr_url>>)]
       ELSE IF notifications[key] # NoMessage
            THEN [notifications EXCEPT ![key].urls = Append(@, pr_url)]
            ELSE [notifications EXCEPT
                    ![key] = Message("New PRs have been created:", <<>>, <<pr_url>>)]

\* createpr_create leaving the loop when a pull request could not be created
createpr_create_break_on_failure ==
    /\ pc = "createpr_create"
    /\ \E pr_url \in {NoUrl, PrUrl(CurrentRepo)} :
        /\ trace' = trace \o
              <<Ev("create_pull_request", CurrentRepo,
                   [base |-> base_branch, head |-> head_branch], pr_url),
                IF pr_url # NoUrl THEN rprint("PR url", pr_url)
                ELSE rprint("Failed to create PR", CurrentRepo)>>
        /\ notifications' = IF pr_url # NoUrl
                            THEN Accumulate(CurrentRepo, pr_url)
                            ELSE notifications
        /\ IF LoopDone \/ pr_url = NoUrl
           THEN pc' = "createpr_flush" /\ idx' = 1
           ELSE pc' = "createpr_compare" /\ idx' = idx + 1
    /\ UNCHANGED <<config, run, command, ctx, created_before, WORKFLOW_PRESETS, base_branch, head_branch, repo_full,
                   has_commits, bumpLocals, outcome>>

\* createpr_create sending the notification as soon as the pull request exists
createpr_create_send_in_loop ==
    /\ pc = "createpr_create"
    /\ \E pr_url \in {NoUrl, PrUrl(CurrentRepo)}, response \in Responses :
        /\ trace' = trace \o
              <<Ev("create_pull_request", CurrentRepo,
                   [base |-> base_branch, head |-> head_branch], pr_url),
                IF pr_url # NoUrl THEN rprint("PR url", pr_url)
                ELSE rprint("Failed to create PR", CurrentRepo)>>
              \o (IF pr_url # NoUrl
                  THEN send_message(Message("New PRs have been created:", <<>>, <<pr_url>>),
                                    ~is_fe_repo(CurrentRepo), is_fe_repo(CurrentRepo),
                                    response)
                  ELSE <<>>)
        /\ notifications' = notifications
    /\ IF LoopDone
       THEN pc' = "createpr_flush" /\ idx' = 1
       ELSE pc' = "createpr_compare" /\ idx' = idx + 1
    /\ UNCHANGED <<config, run, command, ctx, created_before, WORKFLOW_PRESETS, base_branch, head_branch, repo_full,
                   has_commits, bumpLocals, outcome>>

\* createpr_create asking a second time after a first call returned no URL
createpr_create_retry_once ==
    /\ pc = "createpr_create"
    /\ \E first \in {NoUrl, PrUrl(CurrentRepo)}, pr_url \in {NoUrl, PrUrl(CurrentRepo)} :
        /\ trace' = trace \o
              (IF first = NoUrl
               THEN <<Ev("create_pull_request", CurrentRepo,
                         [base |-> base_branch, head |-> head_branch], first)>>
               ELSE <<>>) \o
              <<Ev("create_pull_request", CurrentRepo,
                   [base |-> base_branch, head |-> head_branch], pr_url),
                IF pr_url # NoUrl THEN rprint("PR url", pr_url)
                ELSE rprint("Failed to create PR", CurrentRepo)>>
        /\ notifications' = IF pr_url # NoUrl
                            THEN Accumulate(CurrentRepo, pr_url)
                            ELSE notifications
    /\ IF LoopDone
       THEN pc' = "createpr_flush" /\ idx' = 1
       ELSE pc' = "createpr_compare" /\ idx' = idx + 1
    /\ UNCHANGED <<config, run, command, ctx, created_before, WORKFLOW_PRESETS, base_branch, head_branch, repo_full,
                   has_commits, bumpLocals, outcome>>

\* pr_url = GitHubService.create_pull_request(repo, base, head) and what
\* follows it in the loop body
createpr_create ==
    /\ pc = "createpr_create"
    /\ \E pr_url \in {NoUrl, PrUrl(CurrentRepo)} :
        /\ trace' = trace \o
              <<Ev("create_pull_request", CurrentRepo,
                   [base |-> base_branch, head |-> head_branch], pr_url),
                IF pr_url # NoUrl THEN rprint("PR url", pr_url)
                ELSE rprint("Failed to create PR", CurrentRepo)>>
        /\ notifications' = IF pr_url # NoUrl
                            THEN Accumulate(CurrentRepo, pr_url)
                            ELSE notifications
    /\ IF LoopDone
       THEN pc' = "createpr_flush" /\ idx' = 1
       ELSE pc' = "createpr_compare" /\ idx' = idx + 1
    /\ UNCHANGED <<config, run, command, ctx, created_before, WORKFLOW_PRESETS, base_branch, head_branch, repo_full,
                   has_commits, bumpLocals, outcome>>

\* createpr_flush with the `if message:` test lost
createpr_flush_always ==
    /\ pc = "createpr_flush"
    /\ LET key == Keys[idx]
           message == notifications[key]
       IN \E response \in Responses :
             trace' = trace \o send_message(message, key = "be", key = "fe", response)
    /\ IF idx >= Len(Keys)
       THEN pc' = "done" /\ outcome' = "returned" /\ idx' = idx
       ELSE pc' = "createpr_flush" /\ outcome' = outcome /\ idx' = idx + 1
    /\ UNCHANGED <<config, run, command, ctx, created_before, WORKFLOW_PRESETS, prLocals, repo_full, bumpLocals>>

\* createpr_flush letting a failed send end the command
createpr_flush_raise_on_failure ==
    /\ pc = "createpr_flush"
    /\ LET key == Keys[idx]
           message == notifications[key]
       IN IF message # NoMessage
          THEN \E response \in Responses :
                  LET events == send_message(message, key = "be", key = "fe", response)
                  IN /\ trace' = trace \o events
                     /\ IF ~events[1].res
                        THEN pc' = "done" /\ outcome' = "raised" /\ idx' = idx
                        ELSE IF idx >= Len(Keys)
                        THEN pc' = "done" /\ outcome' = "returned" /\ idx' = idx
                        ELSE pc' = "createpr_flush" /\ outcome' = outcome /\ idx' = idx + 1
          ELSE /\ trace' = trace
               /\ IF idx >= Len(Keys)
                  THEN pc' = "done" /\ outcome' = "returned" /\ idx' = idx
                  ELSE pc' = "createpr_flush" /\ outcome' = outcome /\ idx' = idx + 1
    /\ UNCHANGED <<config, run, command, ctx, created_before, WORKFLOW_PRESETS, prLocals, repo_full, bumpLocals>>

\* one turn of `for key, message in notifications.items()`
createpr_flush ==
    /\ pc = "createpr_flush"
    /\ LET key == Keys[idx]
           message == notifications[key]
       IN IF message # NoMessage
          THEN \E response \in Responses :
                  trace' = trace \o send_message(message, key = "be", key = "fe", response)
          ELSE trace' = trace
    /\ IF idx >= Len(Keys)
       THEN pc' = "done" /\ outcome' = "returned" /\ idx' = idx
       ELSE pc' = "createpr_flush" /\ outcome' = outcome /\ idx' = idx + 1
    /\ UNCHANGED <<config, run, command, ctx, created_before, WORKFLOW_PRESETS, prLocals, repo_full, bumpLocals>>

(***************************************************************************)
(* check.                                                                  *)
(***************************************************************************)
check_start(base, head, compare_spec, repo) ==
    /\ Ready
    /\ Positional(compare_spec, repo)
    /\ run' = run + 1
    /\ command' = [handler |-> "check", base |-> base, head |-> head,
                   compare_spec |-> compare_spec, repo |-> repo]
    /\ cli(base, head)
    /\ FreshBump
    /\ has_commits' = FALSE
    /\ notifications' = [fe |-> NoMessage, be |-> NoMessage]
    /\ IF ~GITHUB_TOKEN
       THEN /\ trace' = TokenNotSet
            /\ pc' = "done"
            /\ outcome' = "returned"
            /\ base_branch' = DEFAULT_BASE_BRANCH
            /\ head_branch' = DEFAULT_HEAD_BRANCH
            /\ repo_full' = Unset
            /\ idx' = 0
       ELSE /\ base_branch' = ParseCompareSpec(ctx'.base_branch, ctx'.head_branch, compare_spec)[1]
            /\ head_branch' = ParseCompareSpec(ctx'.base_branch, ctx'.head_branch, compare_spec)[2]
            /\ trace' = <<>>
            /\ IF repo # <<>>
               THEN /\ repo_full' = resolve_repo(repo)
                    /\ idx' = 0
                    /\ IF resolve_repo(repo).tag = "raise"
                       THEN pc' = "done" /\ outcome' = "raised"
                       ELSE pc' = "check_compare" /\ outcome' = "running"
               ELSE /\ repo_full' = Unset
                    /\ idx' = 1
                    /\ pc' = "check_compare"
                    /\ outcome' = "running"
    /\ UNCHANGED <<config, created_before, WORKFLOW_PRESETS>>

\* check leaving the loop at a comparison that failed
check_compare_stop_on_failure ==
    /\ pc = "check_compare"
    /\ \E result \in ComparisonResults :
        /\ trace' = trace \o get_pending_commits(CurrentRepo, base_branch,
                                                 head_branch, TRUE, result)
        /\ IF LoopDone \/ result = "failed"
           THEN pc' = "done" /\ outcome' = "returned" /\ idx' = idx
           ELSE pc' = "check_compare" /\ outcome' = outcome /\ idx' = idx + 1
    /\ UNCHANGED <<config, run, command, ctx, created_before, WORKFLOW_PRESETS, prLocals, repo_full, bumpLocals>>

\* GitHubService.get_pending_commits(repo, base_branch, head_branch)
check_compare ==
    /\ pc = "check_compare"
    /\ \E result \in ComparisonResults :
        trace' = trace \o get_pending_commits(CurrentRepo, base_branch,
                                              head_branch, TRUE, result)
    /\ IF LoopDone
       THEN pc' = "done" /\ outcome' = "returned" /\ idx' = idx
       ELSE pc' = "check_compare" /\ outcome' = outcome /\ idx' = idx + 1
    /\ UNCHANGED <<config, run, command, ctx, created_before, WORKFLOW_PRESETS, prLocals, repo_full, bumpLocals>>

(***************************************************************************)
(* bump: commands/release.py registers one, commands/actions.py registers  *)
(* another under the same name afterwards.                                 *)
(***************************************************************************)
BumpHandlers == {"release.bump", "actions.bump"}
\* register_release_commands runs before register_actions_commands, and
\* click keeps the last command added under a name
Registered == <<"release.bump", "actions.bump">>
\* click keeping the first command added under a name
Dispatched_first_registration == Registered[1]
Dispatched == Registered[Len(Registered)]

V(a, b, c) == str(a) \o <<".">> \o str(b) \o <<".">> \o str(c)
\* what GitHubService.get_latest_version may return
LatestVersions == { V(1, 2, 3), <<"v">> \o V(1, 9, 9), <<"x">> }
Dates == {"November 01, 2026", "November 02, 2026"}
NameArgs == { <<>>, <<"n">> }
BodyArgs == { <<>>, <<"m">> }
ShortRepoArgs == { <<"b">>, <<"z">>, RepoA }

\* bump_type from the flags
\* the flags tested in the order major, minor, patch
BumpType_minor_before_patch(major, minor, patch) ==
    IF major THEN "major" ELSE IF minor THEN "minor"
    ELSE IF patch THEN "patch" ELSE "minor"
BumpType(major, minor, patch) ==
    IF major THEN "major" ELSE IF patch THEN "patch" ELSE "minor"

DefaultBody(version, today) == <<"Release", version, "created by Tiamat on", today>>

ResolveFor(handler, repo) ==
    IF handler = "release.bump" THEN release_resolve_repo(repo)
    ELSE actions_resolve_repo(repo)

RepositoryNotFound(repo) == <<rprint("Repository not found", repo)>>

\* bump up to the confirmation prompt
bump_start(handler, repo, major, minor, patch, name_arg, body_arg) ==
    /\ Ready
    /\ handler = "release.bump" => body_arg = <<>>
    /\ run' = run + 1
    /\ command' = [handler |-> handler, repo |-> repo, major |-> major,
                   minor |-> minor, patch |-> patch, name |-> name_arg,
                   body |-> body_arg]
    /\ cli_defaults
    /\ FreshPr
    /\ idx' = 0
    /\ IF ~GITHUB_TOKEN
       THEN /\ trace' = TokenNotSet
            /\ pc' = "done" /\ outcome' = "returned"
            /\ repo_full' = Unset
            /\ FreshBump
       ELSE LET resolved == ResolveFor(handler, repo) IN
            /\ repo_full' = resolved
            /\ IF resolved.tag = "raise"
               THEN /\ trace' = <<>>
                    /\ pc' = "done" /\ outcome' = "raised"
                    /\ FreshBump
               ELSE IF ~Truthy(resolved)
               THEN /\ trace' = RepositoryNotFound(repo)
                    /\ pc' = "done" /\ outcome' = "returned"
                    /\ FreshBump
               ELSE \E latest \in LatestVersions, today \in Dates :
                    LET kind == BumpType(major, minor, patch)
                        bumped == bump_version(latest, kind)
                    IN
                    /\ current_version' = latest
                    /\ bump_type' = kind
                    /\ new_version' = bumped
                    /\ name' = IF name_arg = <<>> /\ bumped.tag = "ok"
                               THEN bumped.val ELSE name_arg
                    /\ body' = IF handler = "actions.bump"
                               THEN IF body_arg = <<>> /\ bumped.tag = "ok"
                                    THEN DefaultBody(bumped.val, today)
                                    ELSE body_arg
                               ELSE <<>>
                    /\ IF bumped.tag = "raise"
                       THEN /\ trace' = <<Ev("get_latest_version", resolved.val, <<>>, latest)>>
                            /\ pc' = "done" /\ outcome' = "raised"
                       ELSE /\ trace' = <<Ev("get_latest_version", resolved.val, <<>>, latest),
                                          rprint("Creating new release", resolved.val)>>
                            /\ pc' = "bump_confirm" /\ outcome' = "running"
    /\ UNCHANGED <<config, created_before, WORKFLOW_PRESETS>>

\* bump_confirm creating the release whatever the operator answered
bump_confirm_ignored ==
    /\ pc = "bump_confirm"
    /\ \E answer \in BOOLEAN, success \in BOOLEAN :
        trace' = trace \o
            <<Ev("click.confirm", repo_full.val, "Do you want to create this release?", answer),
              Ev("create_release", repo_full.val,
                 [tag |-> new_version.val, target_branch |-> <<"m", "a", "i", "n">>,
                  name |-> name,
                  body |-> IF command.handler = "actions.bump" THEN body ELSE <<>>,
                  draft |-> FALSE, prerelease |-> FALSE], success)>>
            \o (IF success THEN <<rprint("Successfully bumped version", repo_full.val)>>
                ELSE <<>>)
    /\ pc' = "done"
    /\ outcome' = "returned"
    /\ UNCHANGED <<config, run, command, ctx, created_before, WORKFLOW_PRESETS, prLocals, repo_full, idx, bumpLocals>>

\* click.confirm and what follows it
bump_confirm ==
    /\ pc = "bump_confirm"
    /\ \E answer \in BOOLEAN, success \in BOOLEAN :
        trace' = trace \o
            IF answer
            THEN <<Ev("click.confirm", repo_full.val, "Do you want to create this release?", TRUE),
                   Ev("create_release", repo_full.val,
                      [tag |-> new_version.val, target_branch |-> <<"m", "a", "i", "n">>,
                       name |-> name,
                       body |-> IF command.handler = "actions.bump" THEN body ELSE <<>>,
                       draft |-> FALSE, prerelease |-> FALSE], success)>>
                 \o (IF success THEN <<rprint("Successfully bumped version", repo_full.val)>>
                     ELSE <<>>)
            ELSE <<Ev("click.confirm", repo_full.val, "Do you want to create this release?", FALSE),
                   rprint("Release creation cancelled.", <<>>)>>
    /\ pc' = "done"
    /\ outcome' = "returned"
    /\ UNCHANGED <<config, run, command, ctx, created_before, WORKFLOW_PRESETS, prLocals, repo_full, idx, bumpLocals>>

(***************************************************************************)
(* releases, merge, workflows.                                             *)
(***************************************************************************)
\* a command that runs to its end in one step starts and finishes here
RunToEnd(cmd, events, how) ==
    /\ Ready
    /\ run' = run + 1
    /\ command' = cmd
    /\ trace' = events
    /\ pc' = "done"
    /\ outcome' = how
    /\ cli_defaults
    /\ FreshPr
    /\ FreshBump
    /\ idx' = 0
    /\ UNCHANGED <<config, created_before>>
\* the same for a command that does not touch the preset table
OneStep(cmd, events, how) ==
    /\ RunToEnd(cmd, events, how)
    /\ UNCHANGED WORKFLOW_PRESETS

\* the calls of `for repository in REPOSITORIES: list_releases(repository, limit)`
ListAll(limit) ==
    [j \in 1..Len(REPOSITORIES) |-> Ev("list_releases", REPOSITORIES[j], limit, TRUE)]

releases(repo) ==
    LET cmd == [handler |-> "releases", repo |-> repo]
        limit == 5
        resolved == release_resolve_repo(repo)
    IN IF ~GITHUB_TOKEN
       THEN OneStep(cmd, TokenNotSet, "returned") /\ repo_full' = Unset
       ELSE IF repo # <<>>
       THEN /\ repo_full' = resolved
            /\ IF resolved.tag = "raise" THEN OneStep(cmd, <<>>, "raised")
               ELSE IF ~Truthy(resolved)
               THEN OneStep(cmd, RepositoryNotFound(repo), "returned")
               ELSE OneStep(cmd, <<Ev("list_releases", resolved.val, limit, TRUE)>>,
                            "returned")
       ELSE OneStep(cmd, ListAll(limit), "returned") /\ repo_full' = Unset

\* merge without its `if not GITHUB_TOKEN` check
merge_unchecked(repo, pr_number) ==
    LET cmd == [handler |-> "merge", repo |-> repo, pr_number |-> pr_number]
        resolved == merge_resolve_repo(repo)
    IN /\ repo_full' = resolved
       /\ IF resolved.tag = "raise" THEN OneStep(cmd, <<>>, "raised")
          ELSE IF ~Truthy(resolved)
          THEN OneStep(cmd, RepositoryNotFound(repo), "returned")
          ELSE \E answer \in BOOLEAN, success \in BOOLEAN :
               OneStep(cmd,
                   <<rprint("Merging pull request", resolved.val)>> \o
                   (IF answer
                    THEN <<Ev("click.confirm", resolved.val,
                              "Do you want to merge this pull request?", TRUE),
                           Ev("merge_pr", resolved.val, pr_number, success),
                           rprint(IF success THEN "Successfully merged PR"
                                  ELSE "Failed to merge PR", resolved.val)>>
                    ELSE <<Ev("click.confirm", resolved.val,
                              "Do you want to merge this pull request?", FALSE),
                           rprint("Merge cancelled.", <<>>)>>),
                   "returned")

merge(repo, pr_number) ==
    LET cmd == [handler |-> "merge", repo |-> repo, pr_number |-> pr_number]
        resolved == merge_resolve_repo(repo)
    IN IF ~GITHUB_TOKEN
       THEN OneStep(cmd, TokenNotSet, "returned") /\ repo_full' = Unset
       ELSE /\ repo_full' = resolved
            /\ IF resolved.tag = "raise" THEN OneStep(cmd, <<>>, "raised")
               ELSE IF ~Truthy(resolved)
               THEN OneStep(cmd, RepositoryNotFound(repo), "returned")
               ELSE \E answer \in BOOLEAN, success \in BOOLEAN :
                    OneStep(cmd,
                        <<rprint("Merging pull request", resolved.val)>> \o
                        (IF answer
                         THEN <<Ev("click.confirm", resolved.val,
                                   "Do you want to merge this pull request?", TRUE),
                                Ev("merge_pr", resolved.val, pr_number, success),
                                rprint(IF success THEN "Successfully merged PR"
                                       ELSE "Failed to merge PR", resolved.val)>>
                         ELSE <<Ev("click.confirm", resolved.val,
                                   "Do you want to merge this pull request?", FALSE),
                                rprint("Merge cancelled.", <<>>)>>),
                        "returned")

workflows(repo) ==
    LET cmd == [handler |-> "workflows", repo |-> repo]
        resolved == actions_resolve_repo(repo)
    IN IF ~GITHUB_TOKEN
       THEN OneStep(cmd, TokenNotSet, "returned") /\ repo_full' = Unset
       ELSE /\ repo_full' = resolved
            /\ IF resolved.tag = "raise" THEN OneStep(cmd, <<>>, "raised")
               ELSE IF ~Truthy(resolved)
               THEN OneStep(cmd, RepositoryNotFound(repo), "returned")
               ELSE OneStep(cmd, <<Ev("list_workflows", resolved.val, <<>>, TRUE)>>,
                            "returned")

(***************************************************************************)
(* run and the preset commands.                                            *)
(***************************************************************************)
\* a dict as the sequence of its (key, value) pairs in insertion order
DictKeys(d) == {d[j][1] : j \in 1..Len(d)}
\* an assignment that keeps the value a key already has
DictSet_first_wins(d, k, v) ==
    IF k \in DictKeys(d) THEN d ELSE Append(d, <<k, v>>)
DictSet(d, k, v) ==
    IF k \in DictKeys(d)
    THEN [j \in 1..Len(d) |-> IF d[j][1] = k THEN <<k, v>> ELSE d[j]]
    ELSE Append(d, <<k, v>>)

\* the loop `for inp in input` over the -i tokens, starting from a dict
RECURSIVE ParseInputs(_, _)
ParseInputs(inputs, tokens) ==
    IF tokens = <<>> THEN inputs
    ELSE IF ~In(<<"=">>, Head(tokens)) THEN ParseInputs(inputs, Tail(tokens))
    ELSE LET kv == SplitOnce(Head(tokens), <<"=">>)
         IN ParseInputs(DictSet(inputs, kv[1], kv[2]), Tail(tokens))

\* the warnings that loop prints
RECURSIVE InputWarnings(_)
InputWarnings(tokens) ==
    IF tokens = <<>> THEN <<>>
    ELSE (IF ~In(<<"=">>, Head(tokens))
          THEN <<rprint("Ignoring invalid input format", Head(tokens))>>
          ELSE <<>>) \o InputWarnings(Tail(tokens))

InputArgs ==
    { <<>>,
      << <<"k", "=", "v">> >>,
      << <<"k">>, <<"k", "=", "v">> >>,
      << <<"k", "=", "v">>, <<"k", "=", "w", "=">> >> }

run_workflow(workflow, repo, branch, input) ==
    LET cmd == [handler |-> "run", workflow |-> workflow, repo |-> repo,
                branch |-> branch, input |-> input]
        resolved == actions_resolve_repo(repo)
        inputs == ParseInputs(<<>>, input)
    IN IF ~GITHUB_TOKEN
       THEN OneStep(cmd, TokenNotSet, "returned") /\ repo_full' = Unset
       ELSE /\ repo_full' = resolved
            /\ IF resolved.tag = "raise" THEN OneStep(cmd, <<>>, "raised")
               ELSE IF ~Truthy(resolved)
               THEN OneStep(cmd, RepositoryNotFound(repo), "returned")
               ELSE OneStep(cmd,
                        InputWarnings(input) \o
                        <<Ev("trigger_workflow", resolved.val,
                             [workflow |-> workflow, branch |-> branch,
                              inputs |-> IF inputs # <<>> THEN Ok(inputs) ELSE None],
                             TRUE)>>,
                        "returned")

Environments == {"staging", "prod", "demo", "qa"}
PresetInputArgs ==
    { <<>>,
      << Region \o <<"=", "u", "s">> >>,
      << <<"k">>, <<"k", "=", "v">> >> }

\* inputs = env_config["inputs"]: the command's dict is the table's own
PresetsAfter_shared_dict(preset, environment, inputs) ==
    [WORKFLOW_PRESETS EXCEPT ![preset][environment].inputs = inputs]
\* inputs = dict(env_config["inputs"]): the command's dict is a copy, and
\* the assignments of the input loop leave the table's dict as it was
PresetsAfter(preset, environment, inputs) == WORKFLOW_PRESETS

preset_command(preset, environment, repo, branch, input) ==
    LET cmd == [handler |-> preset, environment |-> environment, repo |-> repo,
                branch |-> branch, input |-> input]
        cfg == WORKFLOW_PRESETS[preset]
        resolved == actions_resolve_repo(repo)
    IN IF ~GITHUB_TOKEN
       THEN OneStep(cmd, TokenNotSet, "returned") /\ repo_full' = Unset
       ELSE IF environment \notin DOMAIN cfg
       THEN OneStep(cmd, <<rprint("Unknown environment", environment)>>, "returned")
            /\ repo_full' = Unset
       ELSE LET env_config == cfg[environment]
                workflow_branch == IF branch # "" THEN branch ELSE env_config.branch
                inputs == ParseInputs(env_config.inputs, input)
            IN
            /\ WORKFLOW_PRESETS' = PresetsAfter(preset, environment, inputs)
            /\ repo_full' = resolved
            /\ IF resolved.tag = "raise" THEN RunToEnd(cmd, InputWarnings(input), "raised")
               ELSE IF ~Truthy(resolved)
               THEN RunToEnd(cmd, InputWarnings(input) \o RepositoryNotFound(repo),
                             "returned")
               ELSE RunToEnd(cmd,
                        InputWarnings(input) \o
                        <<rprint("Running workflow", resolved.val),
                          Ev("trigger_workflow", resolved.val,
                             [workflow |-> env_config.workflow,
                              branch |-> workflow_branch,
                              inputs |-> Ok(inputs)], TRUE)>>,
                        "returned")

(***************************************************************************)
(* sprint-report.  The Jira settings are read from the environment; the    *)
(* model takes them as given on each run of the command.                   *)
(***************************************************************************)
SprintArgs == {"Sprint 47", "Sprint 48"}
ProjectArgs == {"", "PROJ"}
JiraDefaultProjects == {"", "TEAM"}
JiraResponses == {"200", "500", "exception"}

\* the text of a JQL filter on a sprint name, as its three pieces
SprintQuery(sprint_name) ==
    <<" AND sprint = \"", sprint_name,
      "\" AND status in (\"DONE\", \"CLOSED\", \"DEPLOYED\")">>

\* JiraService.sprint_report(query, project_key) up to the answer of the
\* search request
JiraService_sprint_report(query, project_key, headers, response) ==
    LET jql == IF project_key # "" THEN <<"project = ", project_key, " ">> \o query
               ELSE query
        call(res) == Ev("sprint_report", <<>>,
                        [query |-> query, project_key |-> project_key], res)
    IN IF ~headers
       THEN <<call(FALSE), rprint("JIRA_TOKEN and JIRA_USER must be set", <<>>)>>
       ELSE <<call(response = "200"),
              Ev("requests.get", <<>>, [jql |-> jql, maxResults |-> 500], response)>>
            \o (IF response = "200" THEN <<>>
                ELSE <<rprint("Error connecting to Jira", <<>>)>>)

sprint_report(sprint, project) ==
    LET cmd == [handler |-> "sprint-report", sprint |-> sprint, project |-> project]
        query == SprintQuery("Sprint 47")
    IN \E JIRA_DEFAULT_PROJECT \in JiraDefaultProjects, headers \in BOOLEAN,
          response \in JiraResponses :
          LET project_key == IF project # "" THEN project ELSE JIRA_DEFAULT_PROJECT
          IN /\ OneStep(cmd,
                        JiraService_sprint_report(query, project_key, headers, response),
                        "returned")
             /\ repo_full' = Unset

(***************************************************************************)
(* The tool: a configuration and the command lines run under it.           *)
(***************************************************************************)
\* commands/shell.py: the command returned (or its exception was caught and
\* printed) and the shell's `while True` loop reads the next line.  The
\* locals of the finished command are gone; the dictionary createpr built
\* is left where it was, unreachable, until a command binds its own
shell_prompt ==
    /\ pc = "done"
    /\ run < MaxRuns
    /\ pc' = "prompt"
    /\ command' = NoCommand
    /\ cli_defaults
    /\ base_branch' = DEFAULT_BASE_BRANCH
    /\ head_branch' = DEFAULT_HEAD_BRANCH
    /\ has_commits' = FALSE
    /\ FreshBump
    /\ repo_full' = Unset
    /\ idx' = 0
    /\ trace' = <<>>
    /\ outcome' = "none"
    /\ created_before' =
            (created_before
                \/ \E j \in 1..Len(trace) :
                    trace[j].op = "create_pull_request" /\ trace[j].res # NoUrl)
    /\ UNCHANGED <<config, run, notifications, WORKFLOW_PRESETS>>

Next ==
    \/ shell_prompt
    \/ Ready /\ \E base \in BaseFlags, head \in HeadFlags,
          compare_spec \in CompareSpecs, repo \in RepoArgs :
          createpr_start(base, head, compare_spec, repo)
    \/ createpr_compare
    \/ createpr_create
    \/ createpr_flush
    \/ Ready /\ \E base \in BaseFlags, head \in HeadFlags,
          compare_spec \in CompareSpecs, repo \in RepoArgs :
          check_start(base, head, compare_spec, repo)
    \/ check_compare
    \/ Ready /\ \E handler \in BumpHandlers, repo \in ShortRepoArgs,
          major \in BOOLEAN, minor \in BOOLEAN, patch \in BOOLEAN,
          name_arg \in NameArgs, body_arg \in BodyArgs :
          bump_start(handler, repo, major, minor, patch, name_arg, body_arg)
    \/ bump_confirm
    \/ Ready /\ \E repo \in ShortRepoArgs \cup {<<>>} : releases(repo)
    \/ Ready /\ \E repo \in ShortRepoArgs : merge(repo, 7)
    \/ Ready /\ \E repo \in ShortRepoArgs : workflows(repo)
    \/ Ready /\ \E repo \in ShortRepoArgs, input \in InputArgs :
          run_workflow("build.yml", repo, "main", input)
    \/ Ready /\ \E preset \in PresetNames, environment \in Environments,
          repo \in ShortRepoArgs, branch \in {"", "feature"},
          input \in PresetInputArgs :
          preset_command(preset, environment, repo, branch, input)
    \/ Ready /\ \E sprint \in SprintArgs, project \in ProjectArgs :
          sprint_report(sprint, project)

Spec == Init /\ [][Next]_vars

(***************************************************************************)
(* The resolver on its own: every typed name against every configured      *)
(* list, for each of the four copies of resolve_repo.                      *)
(***************************************************************************)
NameAlphabet == {"a", "b", "/"}
\* configured identifiers: well-formed ones, an unset entry, one without
\* owner and one with two separators
KnownPool ==
    { <<"a", "/", "a">>, <<"a", "/", "b">>, <<"b", "/", "a">>,
      <<>>, <<"a">>, <<"a", "/", "a", "/", "b">> }
Resolvers == {"main", "release", "actions", "merge"}

InitResolve ==
    /\ GITHUB_TOKEN = TRUE
    /\ REPOSITORIES \in SeqsUpTo(KnownPool, MaxKnown) \ {<<>>}
    /\ FE_REPOSITORIES = UnsetList
    /\ SLACK = "none"
    /\ run = 0
    /\ pc = "resolve"
    /\ command \in [handler : Resolvers, repo : StringsUpTo(NameAlphabet, MaxInputLen)]
    /\ IdleLocals

Resolved(result) ==
    /\ pc = "resolve"
    /\ repo_full' = result
    /\ pc' = "resolved"
    /\ UNCHANGED <<config, run, command, ctx, created_before, WORKFLOW_PRESETS, prLocals, idx, bumpLocals, trace, outcome>>

call_resolve_repo ==
    command.handler = "main" /\ Resolved(resolve_repo(command.repo))
call_release_resolve_repo ==
    command.handler = "release" /\ Resolved(release_resolve_repo(command.repo))
call_actions_resolve_repo ==
    command.handler = "actions" /\ Resolved(actions_resolve_repo(command.repo))
call_merge_resolve_repo ==
    command.handler = "merge" /\ Resolved(merge_resolve_repo(command.repo))

NextResolve ==
    \/ call_resolve_repo
    \/ call_release_resolve_repo
    \/ call_actions_resolve_repo
    \/ call_merge_resolve_repo

SpecResolve == InitResolve /\ [][NextResolve]_vars

(***************************************************************************)
(* The version bumper on its own: every version string up to MaxPart in    *)
(* each component, with and without prefix, and a few malformed ones.      *)
(***************************************************************************)
MalformedInputs == { <<>>, <<"x">>, V(1, 2, 3) \o <<".", "4">>, <<"1", ".", "2">> }
VersionInputs ==
    {FormatVersion(p, <<a, b, c>>) :
        p \in BOOLEAN, a \in 0..MaxPart, b \in 0..MaxPart, c \in 0..MaxPart}
    \cup MalformedInputs

InitBump ==
    /\ GITHUB_TOKEN = TRUE
    /\ REPOSITORIES = <<RepoA, RepoB, RepoC>>
    /\ FE_REPOSITORIES = UnsetList
    /\ SLACK = "none"
    /\ run = 0
    /\ pc = "bump_version"
    /\ command = NoCommand
    /\ base_branch = DEFAULT_BASE_BRANCH
    /\ head_branch = DEFAULT_HEAD_BRANCH
    /\ repo_full = Unset
    /\ idx = 0
    /\ has_commits = FALSE
    /\ notifications = [fe |-> NoMessage, be |-> NoMessage]
    /\ ctx = TiamatContext(DEFAULT_BASE_BRANCH, DEFAULT_HEAD_BRANCH)
    /\ created_before = FALSE
    /\ WORKFLOW_PRESETS = PresetTable
    /\ current_version \in VersionInputs
    /\ bump_type \in BumpKinds
    /\ new_version = Unset
    /\ name = <<>>
    /\ body = <<>>
    /\ trace = <<>>
    /\ outcome = "none"

call_bump_version ==
    /\ pc = "bump_version"
    /\ new_version' = bump_version(current_version, bump_type)
    /\ pc' = "bumped"
    /\ UNCHANGED <<config, run, command, ctx, created_before, WORKFLOW_PRESETS, prLocals, repo_full, idx,
                   current_version, bump_type, name, body, trace, outcome>>

NextBump == call_bump_version

SpecBump == InitBump /\ [][NextBump]_vars

(***************************************************************************)
(* The branch-spec parsing of check and createpr on its own: every compare *)
(* spec up to MaxSpecLen over a letter of each branch and the dot, under   *)
(* every choice of --base and --head.                                      *)
(***************************************************************************)
SpecAlphabet == {"m", "r", "."}

InitParse ==
    /\ GITHUB_TOKEN = TRUE
    /\ REPOSITORIES = <<RepoA, RepoB, RepoC>>
    /\ FE_REPOSITORIES = UnsetList
    /\ SLACK = "none"
    /\ run = 0
    /\ pc = "parse"
    /\ command \in [handler : {"check", "createpr"}, base : BaseFlags,
                    head : HeadFlags,
                    compare_spec : StringsUpTo(SpecAlphabet, MaxSpecLen),
                    repo : {<<>>}]
    /\ ctx = TiamatContext(command.base, command.head)
    /\ base_branch = DEFAULT_BASE_BRANCH
    /\ head_branch = DEFAULT_HEAD_BRANCH
    /\ repo_full = Unset
    /\ idx = 0
    /\ has_commits = FALSE
    /\ notifications = [fe |-> NoMessage, be |-> NoMessage]
    /\ created_before = FALSE
    /\ WORKFLOW_PRESETS = PresetTable
    /\ current_version = <<>>
    /\ bump_type = "minor"
    /\ new_version = Unset
    /\ name = <<>>
    /\ body = <<>>
    /\ trace = <<>>
    /\ outcome = "none"

Parsed(branches) ==
    /\ pc = "parse"
    /\ base_branch' = branches[1]
    /\ head_branch' = branches[2]
    /\ pc' = "parsed"
    /\ UNCHANGED <<config, run, command, ctx, created_before, WORKFLOW_PRESETS, has_commits,
                   notifications, repo_full, idx, bumpLocals, trace, outcome>>

\* base_branch, head_branch = ... in check
parse_check ==
    /\ command.handler = "check"
    /\ Parsed(ParseCompareSpec(ctx.base_branch, ctx.head_branch, command.compare_spec))
\* base_branch, head_branch = ... in createpr
parse_createpr ==
    /\ command.handler = "createpr"
    /\ Parsed(ParseCompareSpec(ctx.base_branch, ctx.head_branch, command.compare_spec))

NextParse ==
    \/ parse_check
    \/ parse_createpr

SpecParse == InitParse /\ [][NextParse]_vars

(***************************************************************************)
(* Properties of createpr.                                                 *)
(***************************************************************************)
Events(op) == LET Is(e) == e.op = op IN SelectSeq(trace, Is)
InCreatepr == command.handler = "createpr"
Batch == command.repo = <<>>
\* the repositories compared so far, in order
ComparedRepos ==
    [j \in 1..Len(Events("get_pending_commits")) |->
        Events("get_pending_commits")[j].repo]
\* the audience of a repository
Audience(repo) == IF is_fe_repo(repo) THEN "fe" ELSE "be"
\* the URLs of the pull requests created so far for an audience, in order
CreatedUrls(key) ==
    LET Hit(e) == e.op = "create_pull_request" /\ e.res # NoUrl
                    /\ Audience(e.repo) = key
        hits == SelectSeq(trace, Hit)
    IN [j \in 1..Len(hits) |-> hits[j].res]
\* the URLs a bucket holds
BucketUrls(key) == notifications[key].urls
\* the number of send_message calls made for an audience
SendsFor(key) ==
    Cardinality({j \in 1..Len(trace) :
        /\ trace[j].op = "send_message"
        /\ IF key = "fe" THEN trace[j].arg.tag_fe ELSE trace[j].arg.tag_be})

\* C1: in a createpr run the create-pull-request operation is called for a
\* repository exactly when the comparison just made for that repository
\* reported commits: every create call directly follows a comparison of the
\* same repository that returned true, every comparison that returned true
\* is followed by the create call (or the run is about to make it), and a
\* comparison that returned false is never followed by a create call.
C1_CreateIffHasCommits ==
    InCreatepr =>
        /\ \A j \in 1..Len(trace) :
            trace[j].op = "create_pull_request" =>
                /\ j > 1
                /\ trace[j - 1].op = "get_pending_commits"
                /\ trace[j - 1].repo = trace[j].repo
                /\ trace[j - 1].res = TRUE
        /\ \A j \in 1..Len(trace) :
            trace[j].op = "get_pending_commits" =>
                IF trace[j].res
                THEN IF j = Len(trace) THEN pc = "createpr_create"
                     ELSE /\ trace[j + 1].op = "create_pull_request"
                          /\ trace[j + 1].repo = trace[j].repo
                ELSE /\ pc # "createpr_create" \/ j < Len(trace)
                     /\ j < Len(trace) => trace[j + 1].op # "create_pull_request"
        /\ pc = "done" =>
            Len(Events("create_pull_request")) =
                Cardinality({j \in 1..Len(trace) :
                    trace[j].op = "get_pending_commits" /\ trace[j].res = TRUE})

\* the run over [A, B, C] in which only B has pending commits: one create
\* call, for B, and nothing but the comparison for A and C
C1_Witness ==
    /\ InCreatepr /\ Batch /\ pc = "done"
    /\ REPOSITORIES = <<RepoA, RepoB, RepoC>>
    /\ Len(Events("get_pending_commits")) = 3
    /\ [j \in 1..3 |-> Events("get_pending_commits")[j].res] = <<FALSE, TRUE, FALSE>>
    /\ Len(Events("create_pull_request")) = 1
    /\ Events("create_pull_request")[1].repo = RepoB
    /\ \A j \in 1..Len(trace) :
        trace[j].repo \in {RepoA, RepoC} => trace[j].op = "get_pending_commits"

\* C2: in a createpr run a create call that returns no URL adds nothing to a
\* bucket (each bucket holds exactly the URLs of the pull requests created
\* for its audience), the failure is printed, and the run goes on: when the
\* batch is done it has returned normally and compared every repository of
\* the list, in order.
C2_FailedCreateAddsNothingAndContinues ==
    (InCreatepr /\ GITHUB_TOKEN) =>
        /\ \A key \in {"fe", "be"} : BucketUrls(key) = CreatedUrls(key)
        /\ \A j \in 1..Len(trace) :
            (trace[j].op = "create_pull_request" /\ trace[j].res = NoUrl) =>
                /\ trace[j + 1] = rprint("Failed to create PR", trace[j].repo)
                /\ \A key \in {"fe", "be"} :
                    \A k \in 1..Len(notifications[key].urls) :
                        notifications[key].urls[k] # PrUrl(trace[j].repo)
        /\ Batch => outcome # "raised"
        /\ (Batch /\ pc = "done") =>
            outcome = "returned" /\ ComparedRepos = REPOSITORIES

\* B's create call failed, C was still compared, nothing was queued
C2_Witness ==
    /\ InCreatepr /\ Batch /\ pc = "done" /\ outcome = "returned"
    /\ REPOSITORIES = <<RepoA, RepoB, RepoC>>
    /\ \E j \in 1..Len(trace) :
        /\ trace[j].op = "create_pull_request"
        /\ trace[j].repo = RepoB
        /\ trace[j].res = NoUrl
        /\ \E k \in (j + 1)..Len(trace) :
            trace[k].op = "get_pending_commits" /\ trace[k].repo = RepoC
    /\ notifications = [fe |-> NoMessage, be |-> NoMessage]
    /\ Events("send_message") = <<>>

\* C3: when a createpr run has ended, send_message has been called exactly
\* once for each audience with at least one created pull request and not at
\* all for an audience with none; so at most twice, and never when no pull
\* request was created.  At no time is it called twice for an audience.
C3_OneSendPerNonEmptyAudience ==
    InCreatepr =>
        /\ \A key \in {"fe", "be"} : SendsFor(key) <= 1
        /\ \A j \in 1..Len(trace) :
            trace[j].op = "send_message" => trace[j].arg.tag_fe # trace[j].arg.tag_be
        /\ pc = "done" =>
            /\ \A key \in {"fe", "be"} :
                SendsFor(key) = IF CreatedUrls(key) # <<>> THEN 1 ELSE 0
            /\ Len(Events("send_message")) <= 2
            /\ Events("create_pull_request") = <<>> => Events("send_message") = <<>>

\* two pull requests for the frontend, none for the backend: one message
C3_Witness ==
    /\ InCreatepr /\ Batch /\ pc = "done"
    /\ Len(CreatedUrls("fe")) = 2
    /\ CreatedUrls("be") = <<>>
    /\ SendsFor("fe") = 1
    /\ SendsFor("be") = 0
    /\ Len(Events("send_message")) = 1

\* C4: in a createpr run nothing is sent while the loop over the
\* repositories is still running: once a send_message call is in the trace,
\* every repository of the list has been compared, every comparison that
\* found commits has had its create call, and no comparison or create call
\* follows the send.
C4_NoSendBeforeLoopEnds ==
    InCreatepr =>
        \A j \in 1..Len(trace) :
            trace[j].op = "send_message" =>
                /\ pc \in {"createpr_flush", "done"}
                /\ Batch => ComparedRepos = REPOSITORIES
                /\ \A k \in 1..Len(trace) :
                    trace[k].op \in {"get_pending_commits", "create_pull_request"} => k < j
                /\ \A k \in 1..Len(trace) :
                    (trace[k].op = "get_pending_commits" /\ trace[k].res = TRUE) =>
                        trace[k + 1].op = "create_pull_request"

\* a message is being sent after the first repository's pull request was
\* created and the two later repositories were processed
C4_Witness ==
    /\ InCreatepr /\ Batch
    /\ REPOSITORIES = <<RepoA, RepoB, RepoC>>
    /\ Len(Events("send_message")) >= 1
    /\ Len(Events("create_pull_request")) >= 2
    /\ Events("create_pull_request")[1].repo = RepoA
    /\ Events("create_pull_request")[1].res # NoUrl
    /\ ComparedRepos = REPOSITORIES

(***************************************************************************)
(* Properties of the token check and of bump.                              *)
(***************************************************************************)
TokenGuarded ==
    {"check", "createpr", "release.bump", "actions.bump", "releases", "merge",
     "workflows", "run"} \cup PresetNames

\* C5: without a hosting-service token no command makes a hosting-service
\* call, asks for confirmation or sends a message; each of check, createpr,
\* bump, releases, merge, workflows, run and the presets prints the missing
\* token message, and nothing else, and returns at once.
C5_NoTokenNoCall ==
    ~GITHUB_TOKEN =>
        /\ \A j \in 1..Len(trace) :
            trace[j].op \notin
                GitHubOps \cup {"click.confirm", "send_message", "requests.post"}
        /\ pc \in {"prompt", "done"}
        /\ (pc = "done" /\ command.handler \in TokenGuarded) =>
            trace = TokenNotSet /\ outcome = "returned"

\* the second command line of a session without token, a createpr, has
\* printed the message and returned
C5_Witness ==
    /\ ~GITHUB_TOKEN
    /\ run = 2
    /\ pc = "done"
    /\ InCreatepr
    /\ trace = TokenNotSet
    /\ outcome = "returned"

InBump == command.handler \in BumpHandlers

\* C6: in bump (either registration) every create_release call directly
\* follows an affirmative answer to the confirmation prompt; after a
\* declined confirmation no create_release call was made, the last thing
\* printed is the cancellation line and the command has returned normally.
C6_ReleaseOnlyAfterConfirmation ==
    InBump =>
        /\ \A j \in 1..Len(trace) :
            trace[j].op = "create_release" =>
                /\ j > 1
                /\ trace[j - 1].op = "click.confirm"
                /\ trace[j - 1].res = TRUE
        /\ \A j \in 1..Len(trace) :
            (trace[j].op = "click.confirm" /\ trace[j].res = FALSE) =>
                /\ Events("create_release") = <<>>
                /\ pc = "done"
                /\ outcome = "returned"
                /\ trace[Len(trace)].op = "print"
                /\ trace[Len(trace)].arg = "Release creation cancelled."
                /\ \A k \in 1..Len(trace) :
                    trace[k].op = "print" =>
                        trace[k].arg \in {"Creating new release",
                                          "Release creation cancelled."}

\* the dispatched bump was declined after the latest version was fetched
C6_Witness ==
    /\ command.handler = Dispatched
    /\ pc = "done"
    /\ outcome = "returned"
    /\ Len(Events("get_latest_version")) = 1
    /\ Len(Events("click.confirm")) = 1
    /\ Events("click.confirm")[1].res = FALSE
    /\ Events("create_release") = <<>>

(***************************************************************************)
(* Properties of the version bumper.                                       *)
(***************************************************************************)
\* C7: for a well-formed version string bump_version returns a well-formed
\* string with the same "v" prefix whose triple is (major+1, 0, 0) for a
\* major bump, (major, minor+1, 0) for a minor bump and (major, minor,
\* patch+1) for a patch bump; "1.2.3" minor gives "1.3.0" and "v1.2.3"
\* patch gives "v1.2.4".
C7_BumpComputesNextVersion ==
    (pc = "bumped" /\ WellFormedVersion(current_version)) =>
        /\ new_version.tag = "ok"
        /\ WellFormedVersion(new_version.val)
        /\ HasPrefix(new_version.val) = HasPrefix(current_version)
        /\ LET t == ParseVersion(current_version)
               u == ParseVersion(new_version.val)
           IN /\ bump_type = "major" => u = <<t[1] + 1, 0, 0>>
              /\ bump_type = "minor" => u = <<t[1], t[2] + 1, 0>>
              /\ bump_type = "patch" => u = <<t[1], t[2], t[3] + 1>>
        /\ (current_version = <<"1", ".", "2", ".", "3">> /\ bump_type = "minor") =>
            new_version.val = <<"1", ".", "3", ".", "0">>
        /\ (current_version = <<"1", ".", "2", ".", "3">> /\ bump_type = "major") =>
            new_version.val = <<"2", ".", "0", ".", "0">>
        /\ (current_version = <<"v", "1", ".", "2", ".", "3">> /\ bump_type = "patch") =>
            new_version.val = <<"v", "1", ".", "2", ".", "4">>

\* "v1.2.3" was bumped by a patch to "v1.2.4"
C7_Witness ==
    /\ pc = "bumped"
    /\ current_version = <<"v", "1", ".", "2", ".", "3">>
    /\ bump_type = "patch"
    /\ new_version = Ok(<<"v", "1", ".", "2", ".", "4">>)

LexLess(t, u) ==
    \/ t[1] < u[1]
    \/ t[1] = u[1] /\ t[2] < u[2]
    \/ t[1] = u[1] /\ t[2] = u[2] /\ t[3] < u[3]

\* C8: for every well-formed version and every bump kind the triple of the
\* bumped version is strictly greater than the triple of the input in
\* lexicographic order.
C8_BumpStrictlyGreater ==
    (pc = "bumped" /\ WellFormedVersion(current_version)) =>
        /\ new_version.tag = "ok"
        /\ LexLess(ParseVersion(current_version), ParseVersion(new_version.val))

\* a major bump of 1.9.10: minor and patch drop, the version still grows
C8_Witness ==
    /\ pc = "bumped"
    /\ bump_type = "major"
    /\ WellFormedVersion(current_version)
    /\ ParseVersion(current_version) = <<1, 9, 10>>
    /\ new_version.tag = "ok"
    /\ ParseVersion(new_version.val) = <<2, 0, 0>>

(***************************************************************************)
(* Properties of the resolver.                                             *)
(***************************************************************************)
\* an identifier of the form owner/name
WellFormedId(r) ==
    /\ Cardinality({j \in 1..Len(r) : r[j] = "/"}) = 1
    /\ r[1] # "/"
    /\ r[Len(r)] # "/"
AllWellFormed == \A j \in 1..Len(REPOSITORIES) : WellFormedId(REPOSITORIES[j])
SuffixAfterSlash(r) == SubSeq(r, Find(r, <<"/">>) + 1, Len(r))
\* the positions of the configured identifiers whose name is the input
MatchPositions(input) ==
    {j \in 1..Len(REPOSITORIES) : SuffixAfterSlash(REPOSITORIES[j]) = input}
HasSlash(input) == \E j \in 1..Len(input) : input[j] = "/"

\* C9: each resolve_repo returns an input that contains "/" unchanged, and,
\* for an input without "/" and a configured list of owner/name
\* identifiers, the first identifier of the list whose part after "/" is
\* the input, when there is one.
C9_ResolveFirstMatch ==
    pc = "resolved" =>
        /\ HasSlash(command.repo) => repo_full = Ok(command.repo)
        /\ (~HasSlash(command.repo) /\ AllWellFormed
                /\ MatchPositions(command.repo) # {}) =>
            LET first == CHOOSE j \in MatchPositions(command.repo) :
                            \A k \in MatchPositions(command.repo) : j <= k
            IN repo_full = Ok(REPOSITORIES[first])

\* "a" against ["b/a", "a/a"]: the first of the two matches is returned
C9_Witness ==
    /\ pc = "resolved"
    /\ command.repo = <<"a">>
    /\ REPOSITORIES = << <<"b", "/", "a">>, <<"a", "/", "a">> >>
    /\ repo_full = Ok(<<"b", "/", "a">>)

\* C10: resolve_repo returns nothing (absent) when the input, a name the
\* operator typed, contains no "/" and no configured identifier matches it.
C10_AbsentWhenNoMatch ==
    (pc = "resolved" /\ command.repo # <<>> /\ ~HasSlash(command.repo)
        /\ AllWellFormed /\ MatchPositions(command.repo) = {}) =>
        repo_full = None

\* C11: resolve_repo is total: for every input and every configured list,
\* a list whose entries contain no "/" included, it returns without
\* raising; and a name the operator typed that matches no owner/name
\* identifier of the list is returned unchanged.
C11_ResolveTotal ==
    pc = "resolved" =>
        /\ repo_full.tag # "raise"
        /\ (command.repo # <<>> /\ ~HasSlash(command.repo) /\ AllWellFormed
                /\ MatchPositions(command.repo) = {}) =>
            repo_full = Ok(command.repo)

(***************************************************************************)
(* Properties of the single-repository commands.                           *)
(***************************************************************************)
SingleRepoCommands ==
    {"check", "createpr", "release.bump", "actions.bump", "releases", "merge",
     "workflows", "run"}
\* the command was given a short name that no configured identifier has
UnresolvedName ==
    /\ command.handler \in SingleRepoCommands
    /\ command.repo # <<>>
    /\ ~HasSlash(command.repo)
    /\ AllWellFormed
    /\ MatchPositions(command.repo) = {}

\* C12: a single-repository command given a short name that does not
\* resolve makes no hosting-service call and, when it has ended, has
\* printed "Repository not found".
C12_UnresolvedNameAborts ==
    (GITHUB_TOKEN /\ UnresolvedName) =>
        /\ \A j \in 1..Len(trace) : trace[j].op \notin GitHubOps
        /\ pc = "done" =>
            \E j \in 1..Len(trace) :
                trace[j].op = "print" /\ trace[j].arg = "Repository not found"

(***************************************************************************)
(* Properties of the branch-spec parsing.                                  *)
(***************************************************************************)
\* sep stands in s at position j
Occurs(s, sep, j) ==
    /\ j + Len(sep) - 1 <= Len(s)
    /\ \A t \in 1..Len(sep) : s[j + t - 1] = sep[t]
Contains(s, sep) == \E j \in 1..Len(s) : Occurs(s, sep, j)
\* the branches are what stands before and after the first sep of s
CutAtFirst(s, sep) ==
    \E j \in 1..Len(s) :
        /\ Occurs(s, sep, j)
        /\ \A k \in 1..(j - 1) : ~Occurs(s, sep, k)
        /\ base_branch = SubSeq(s, 1, j - 1)
        /\ head_branch = SubSeq(s, j + Len(sep), Len(s))

\* C13: a compare spec that contains "..." is cut at its first "...";
\* one that does not but contains ".." is cut at its first ".."; with
\* neither separator (or no spec) the branches are those of the context.
C13_BranchSpecParsing ==
    pc = "parsed" =>
        LET s == command.compare_spec
        IN IF Contains(s, Dots3) THEN CutAtFirst(s, Dots3)
           ELSE IF Contains(s, Dots2) THEN CutAtFirst(s, Dots2)
           ELSE /\ base_branch = command.base
                /\ head_branch = command.head
\* a spec with a three-dot separator was parsed
C13_Witness ==
    /\ pc = "parsed"
    /\ command.compare_spec = <<"m", ".", ".", ".", "r">>
    /\ base_branch = <<"m">>
    /\ head_branch = <<"r">>

(***************************************************************************)
(* Properties of the audiences.                                            *)
(***************************************************************************)
FrontendSet == {FE_REPOSITORIES[k] : k \in 1..Len(FE_REPOSITORIES)}
UrlsIn(key) == {notifications[key].urls[k] : k \in 1..Len(notifications[key].urls)}

\* C14: is_fe_repo answers for every repository, and answers frontend
\* exactly for the members of the configured frontend list; in a createpr
\* run the URL of every pull request created is in the bucket of its
\* repository's audience, frontend for the members of the list and backend
\* for all others, and not in the other bucket.
C14_BucketByAudience ==
    (InCreatepr /\ GITHUB_TOKEN) =>
        /\ \A j \in 1..Len(REPOSITORIES) :
            /\ is_fe_repo(REPOSITORIES[j]) \in BOOLEAN
            /\ is_fe_repo(REPOSITORIES[j]) <=> REPOSITORIES[j] \in FrontendSet
        /\ \A j \in 1..Len(trace) :
            (trace[j].op = "create_pull_request" /\ trace[j].res # NoUrl) =>
                IF trace[j].repo \in FrontendSet
                THEN trace[j].res \in UrlsIn("fe") /\ trace[j].res \notin UrlsIn("be")
                ELSE trace[j].res \in UrlsIn("be") /\ trace[j].res \notin UrlsIn("fe")
\* a batch that created a pull request for the backend repository B and for
\* the frontend repository C, the second entry of the frontend list
C14_Witness ==
    /\ InCreatepr /\ Batch /\ pc = "done"
    /\ REPOSITORIES = <<RepoA, RepoB, RepoC>>
    /\ FE_REPOSITORIES = <<RepoA, RepoC>>
    /\ UrlsIn("fe") = {PrUrl(RepoC)}
    /\ UrlsIn("be") = {PrUrl(RepoB)}

(***************************************************************************)
(* Properties of the batch.                                                *)
(***************************************************************************)
\* the positions in the trace of the comparisons that failed
FailedComparisons ==
    {j \in 1..Len(trace) : trace[j].op = "print" /\ trace[j].arg = "Comparison failed"}

SendFailures ==
    {"Slack not configured", "Failed to send Slack message", "Slack API error",
     "Error sending Slack message"}
\* the positions in the trace of the send_message calls that returned False
FailedSends ==
    {j \in 1..Len(trace) : trace[j].op = "send_message" /\ trace[j].res = FALSE}

\* C16: in a createpr run a send_message call that fails (the service is
\* not configured, the endpoint answers with an error, the transport
\* raises) prints its failure before anything else is sent, no exception
\* leaves the command, no hosting-service call follows it, and when the
\* command has ended a message was still attempted for every audience with
\* a created pull request.
C16_SendFailureIsReportedOnly ==
    InCreatepr =>
        \A j \in FailedSends :
            /\ \E k \in (j + 1)..Len(trace) :
                /\ trace[k].op = "print"
                /\ trace[k].arg \in SendFailures
                /\ \A m \in (j + 1)..(k - 1) : trace[m].op = "requests.post"
            /\ outcome # "raised"
            /\ \A k \in (j + 1)..Len(trace) : trace[k].op \notin GitHubOps
            /\ pc = "done" =>
                /\ outcome = "returned"
                /\ \A key \in {"fe", "be"} :
                    CreatedUrls(key) # <<>> => SendsFor(key) = 1
\* the frontend message could not be sent and the backend message was sent
C16_Witness ==
    /\ InCreatepr /\ pc = "done"
    /\ Len(Events("send_message")) = 2
    /\ Events("send_message")[1].arg.tag_fe
    /\ Events("send_message")[1].res = FALSE
    /\ Events("send_message")[2].arg.tag_be
    /\ Events("send_message")[2].res = TRUE

(***************************************************************************)
(* Properties of the bump flags and of the release that is created.        *)
(***************************************************************************)
\* bump has read the latest version and computed the next one
BumpComputed ==
    /\ InBump
    /\ \E j \in 1..Len(trace) : trace[j].op = "get_latest_version"

\* C17: the kind bump hands to bump_version is one of major, minor and
\* patch: major whenever --major is given, patch when --patch is given
\* without --major (also together with --minor), and minor otherwise; the
\* new version is the bump of the latest version by that kind.
C17_BumpKindFromFlags ==
    BumpComputed =>
        /\ bump_type \in {"major", "minor", "patch"}
        /\ command.major => bump_type = "major"
        /\ (~command.major /\ command.patch) => bump_type = "patch"
        /\ (~command.major /\ ~command.patch) => bump_type = "minor"
        /\ new_version = bump_version(current_version, bump_type)
\* --minor and --patch together: a patch bump
C17_Witness ==
    /\ BumpComputed
    /\ pc = "bump_confirm"
    /\ ~command.major /\ command.minor /\ command.patch
    /\ bump_type = "patch"
    /\ current_version = V(1, 2, 3)
    /\ new_version = Ok(V(1, 2, 4))

\* C18: in the bump the command line dispatches, the release is created
\* with the new version as its tag; its name is the name given, or the new
\* version string when none is given; its body is the body given, or, when
\* none is given, the templated text with the new version and the date,
\* which is not empty.
C18_ReleaseNameAndBody ==
    command.handler = Dispatched =>
        \A j \in 1..Len(trace) :
            trace[j].op = "create_release" =>
                /\ trace[j].arg.tag = new_version.val
                /\ trace[j].arg.name =
                        IF command.name = <<>> THEN new_version.val ELSE command.name
                /\ trace[j].arg.body # <<>>
                /\ IF command.body = <<>>
                   THEN /\ Len(trace[j].arg.body) = 4
                        /\ trace[j].arg.body[1] = "Release"
                        /\ trace[j].arg.body[2] = new_version.val
                        /\ trace[j].arg.body[3] = "created by Tiamat on"
                        /\ trace[j].arg.body[4] \in Dates
                   ELSE trace[j].arg.body = command.body
\* a release created without --name and --body
C18_Witness ==
    /\ command.handler = Dispatched
    /\ command.name = <<>> /\ command.body = <<>>
    /\ \E j \in 1..Len(trace) :
        /\ trace[j].op = "create_release"
        /\ trace[j].arg.name = V(1, 3, 0)
        /\ trace[j].arg.body[2] = V(1, 3, 0)

(***************************************************************************)
(* Properties of the branches check and createpr compare.                  *)
(***************************************************************************)
\* the command line gave a compare spec with a separator
HasSeparator == Contains(command.compare_spec, Dots2)
\* the comparisons and the pull requests asked of the hosting service
BranchCalls ==
    {j \in 1..Len(trace) : trace[j].op \in {"get_pending_commits", "create_pull_request"}}

\* C19: check and createpr work on the branches of the command line's
\* context, which holds the values of --base and --head (main and release
\* when an option is not given), unless the compare spec has a separator;
\* then both branches come from the spec, for the calls of this command
\* only: the context keeps the option values.  Every comparison and every
\* pull request is asked for with these branches.
C19_BranchesFromContext ==
    (command.handler \in {"check", "createpr"} /\ GITHUB_TOKEN) =>
        /\ ctx = TiamatContext(command.base, command.head)
        /\ command.base \in {<<"m", "a", "i", "n">>, <<"d">>}
        /\ command.head \in {<<"r", "e", "l", "e", "a", "s", "e">>, <<"h">>}
        /\ IF HasSeparator
           THEN \E sep \in {Dots3, Dots2} :
                    base_branch \o sep \o head_branch = command.compare_spec
           ELSE base_branch = command.base /\ head_branch = command.head
        /\ \A j \in BranchCalls :
            trace[j].arg.base = base_branch /\ trace[j].arg.head = head_branch
\* --base d with no compare spec: the comparison is asked for d and release
C19_Witness ==
    /\ command.handler = "check"
    /\ command.compare_spec = <<>>
    /\ command.base = <<"d">>
    /\ command.head = DEFAULT_HEAD_BRANCH
    /\ \E j \in BranchCalls :
        trace[j].arg.base = <<"d">> /\ trace[j].arg.head = DEFAULT_HEAD_BRANCH

(***************************************************************************)
(* Properties of a session of several command lines.                       *)
(***************************************************************************)
\* C20: a createpr run starts with both buckets empty, and every URL in a
\* message it sends is the URL of a pull request that this run created
\* before the send, for the audience of the message: nothing queued by an
\* earlier createpr of the same shell session is sent again.
C20_NoCarryOver ==
    (InCreatepr /\ GITHUB_TOKEN) =>
        /\ (pc = "createpr_compare" /\ trace = <<>>) =>
            notifications = [fe |-> NoMessage, be |-> NoMessage]
        /\ \A j \in 1..Len(trace) :
            trace[j].op = "send_message" =>
                LET urls == trace[j].arg.message.urls
                IN /\ urls = CreatedUrls(IF trace[j].arg.tag_fe THEN "fe" ELSE "be")
                   /\ \A u \in 1..Len(urls) :
                        \E k \in 1..(j - 1) :
                            /\ trace[k].op = "create_pull_request"
                            /\ trace[k].res = urls[u]
                            /\ urls[u] = PrUrl(trace[k].repo)
\* the second createpr of a session, after one that created a pull request,
\* sends a message about the pull request it created itself
C20_Witness ==
    /\ InCreatepr /\ run = 2 /\ created_before /\ pc = "done"
    /\ \E j \in 1..Len(trace) :
        /\ trace[j].op = "send_message"
        /\ trace[j].arg.message.urls # <<>>

(***************************************************************************)
(* Properties of the workflow inputs of run and the preset commands.       *)
(***************************************************************************)
InWorkflowRun == command.handler \in {"run"} \cup PresetNames
\* the -i tokens of the command line that have an "=", by position
ValidTokens == {t \in 1..Len(command.input) : Contains(command.input[t], <<"=">>)}
FirstEquals(token) ==
    CHOOSE p \in 1..Len(token) :
        token[p] = "=" /\ \A q \in 1..(p - 1) : token[q] # "="
KeyOf(token) == SubSeq(token, 1, FirstEquals(token) - 1)
ValueOf(token) == SubSeq(token, FirstEquals(token) + 1, Len(token))
\* the inputs the command starts from: none for run, the preset's for a preset
StartInputs ==
    IF command.handler = "run" THEN <<>>
    ELSE PresetTable[command.handler][command.environment].inputs
\* the value a key must end with: that of the last valid token with the
\* key, else the one it started with
ExpectedValue(key) ==
    LET with == {t \in ValidTokens : KeyOf(command.input[t]) = key}
    IN IF with # {}
       THEN ValueOf(command.input[CHOOSE t \in with : \A u \in with : u <= t])
       ELSE LET j == CHOOSE j \in 1..Len(StartInputs) : StartInputs[j][1] = key
            IN StartInputs[j][2]
Warnings ==
    LET Is(e) == e.op = "print" /\ e.arg = "Ignoring invalid input format"
    IN SelectSeq(trace, Is)
InvalidTokens ==
    LET Is(token) == ~Contains(token, <<"=">>)
    IN SelectSeq(command.input, Is)

\* C21: in run and the preset commands every -i token without "=" gets a
\* warning, in order, and is left out; every token with "=" is cut at its
\* first "=" into key and value; the inputs handed to trigger_workflow
\* hold each key once, with the value of the last token that names it (or
\* the preset's value when no token does); and a command that got as far
\* as its input loop with a repository still triggers the workflow.
C21_InputParsing ==
    (InWorkflowRun /\ GITHUB_TOKEN) =>
        /\ \A j \in 1..Len(trace) :
            trace[j].op = "trigger_workflow" =>
                LET d == IF trace[j].arg.inputs = None THEN <<>>
                         ELSE trace[j].arg.inputs.val
                IN /\ DictKeys(d) =
                        DictKeys(StartInputs)
                            \cup {KeyOf(command.input[t]) : t \in ValidTokens}
                   /\ Cardinality(DictKeys(d)) = Len(d)
                   /\ \A i \in 1..Len(d) : d[i][2] = ExpectedValue(d[i][1])
                   /\ [w \in 1..Len(Warnings) |-> Warnings[w].repo] = InvalidTokens
        /\ (pc = "done" /\ outcome = "returned" /\ Len(Warnings) > 0) =>
            Len(Events("trigger_workflow")) = 1
\* run -i k=v -i k=w= : one input, k, with the value "w="
C21_Witness ==
    /\ command.handler = "run"
    /\ command.input = << <<"k", "=", "v">>, <<"k", "=", "w", "=">> >>
    /\ Len(Events("trigger_workflow")) = 1
    /\ Events("trigger_workflow")[1].arg.inputs = Ok(<< <<<<"k">>, <<"w", "=">>>> >>)

(***************************************************************************)
(* Properties of sprint-report.                                            *)
(***************************************************************************)
\* C22: the query sprint-report hands to the sprint-report service, and the
\* JQL of the search request made with it, filter on the sprint name given
\* with --sprint.
C22_QueryNamesGivenSprint ==
    command.handler = "sprint-report" =>
        \A j \in 1..Len(trace) :
            /\ trace[j].op = "sprint_report" =>
                trace[j].arg.query = SprintQuery(command.sprint)
            /\ trace[j].op = "requests.get" =>
                \E k \in 1..Len(trace[j].arg.jql) :
                    /\ trace[j].arg.jql[k] = " AND sprint = \""
                    /\ trace[j].arg.jql[k + 1] = command.sprint

(***************************************************************************)
(* Properties of the order and the number of the external calls.           *)
(***************************************************************************)
\* the calls of the hosting service made so far, in order
HostingCalls ==
    LET Is(e) == e.op \in {"get_pending_commits", "create_pull_request"}
    IN SelectSeq(trace, Is)
\* the first place of a repository in the configured list
ListIndex(repo) ==
    CHOOSE j \in 1..Len(REPOSITORIES) :
        REPOSITORIES[j] = repo /\ \A k \in 1..(j - 1) : REPOSITORIES[k] # repo

\* C23: in a batch createpr run the hosting-service calls are made one
\* after the other in the order of the list: the comparisons made so far
\* are those of the first repositories of the list, in order; of two calls
\* the earlier one is for the same or an earlier repository, and of two
\* calls for the same repository the comparison is the first and the
\* create call the second; when the run is about to make a create call
\* the last call made is the comparison of that repository, and when it is
\* about to compare repository i exactly the i-1 before it were compared.
C23_CallsInListOrder ==
    (InCreatepr /\ Batch /\ GITHUB_TOKEN) =>
        /\ Len(ComparedRepos) <= Len(REPOSITORIES)
        /\ \A j \in 1..Len(ComparedRepos) : ComparedRepos[j] = REPOSITORIES[j]
        /\ \A j \in 1..Len(HostingCalls), k \in 1..Len(HostingCalls) :
            j < k =>
                /\ ListIndex(HostingCalls[j].repo) <= ListIndex(HostingCalls[k].repo)
                /\ HostingCalls[j].repo = HostingCalls[k].repo =>
                    /\ k = j + 1
                    /\ HostingCalls[j].op = "get_pending_commits"
                    /\ HostingCalls[k].op = "create_pull_request"
        /\ pc = "createpr_create" =>
            /\ HostingCalls[Len(HostingCalls)].op = "get_pending_commits"
            /\ HostingCalls[Len(HostingCalls)].repo = REPOSITORIES[idx]
        /\ pc = "createpr_compare" =>
            Len(ComparedRepos) = idx - 1
\* A compared and created, B compared, C compared and created
C23_Witness ==
    /\ InCreatepr /\ Batch /\ pc = "done"
    /\ REPOSITORIES = <<RepoA, RepoB, RepoC>>
    /\ [j \in 1..Len(HostingCalls) |-> <<HostingCalls[j].op, HostingCalls[j].repo>>] =
        << <<"get_pending_commits", RepoA>>, <<"create_pull_request", RepoA>>,
           <<"get_pending_commits", RepoB>>,
           <<"get_pending_commits", RepoC>>, <<"create_pull_request", RepoC>> >>

\* the number of calls of an operation made for a repository
CallsFor(op, repo) ==
    Cardinality({j \in 1..Len(trace) : trace[j].op = op /\ trace[j].repo = repo})
CalledRepos == {trace[j].repo : j \in 1..Len(trace)}

\* C24: nothing is tried twice.  In a check or createpr run no repository
\* is compared more than once or has more than one create call, whatever
\* the calls returned; no audience has more than one send_message call and
\* no send_message call more than one HTTP request; and when the run has
\* ended every repository it was about was compared exactly once.
C24_NoRetry ==
    (command.handler \in {"check", "createpr"} /\ GITHUB_TOKEN) =>
        /\ \A repo \in CalledRepos :
            /\ CallsFor("get_pending_commits", repo) <= 1
            /\ CallsFor("create_pull_request", repo) <= 1
        /\ \A key \in {"fe", "be"} : SendsFor(key) <= 1
        /\ Len(Events("requests.post")) <= Len(Events("send_message"))
        /\ (pc = "done" /\ outcome = "returned") =>
            IF Batch
            THEN \A j \in 1..Len(REPOSITORIES) :
                    CallsFor("get_pending_commits", REPOSITORIES[j]) = 1
            ELSE CallsFor("get_pending_commits", repo_full.val) = 1
\* a run in which a comparison failed, a create call returned no URL and a
\* message could not be sent, each made once
C24_Witness ==
    /\ InCreatepr /\ Batch /\ pc = "done"
    /\ REPOSITORIES = <<RepoA, RepoB, RepoC>>
    /\ FailedComparisons # {}
    /\ \E j \in 1..Len(trace) :
        trace[j].op = "create_pull_request" /\ trace[j].res = NoUrl
    /\ FailedSends # {}
    /\ Len(Events("get_pending_commits")) = 3
    /\ Len(Events("create_pull_request")) = 2
    /\ Len(Events("send_message")) = 1

(***************************************************************************)
(* Properties of the messages createpr sends.                              *)
(***************************************************************************)
\* the position in the trace of the create call that returned a URL
CreatedAt(url) ==
    CHOOSE k \in 1..Len(trace) :
        trace[k].op = "create_pull_request" /\ trace[k].res = url
\* the URL lines are in the order their pull requests were created, which
\* is the order of their repositories in the list
InCreationOrder(urls) ==
    \A u \in 1..Len(urls), v \in 1..Len(urls) :
        u < v =>
            /\ CreatedAt(urls[u]) < CreatedAt(urls[v])
            /\ ListIndex(trace[CreatedAt(urls[u])].repo)
                 < ListIndex(trace[CreatedAt(urls[v])].repo)

\* C25: in a batch createpr run the URL lines of each bucket, and of each
\* message sent, stand in the order in which their pull requests were
\* created, that is in the order of the repository list.
C25_UrlsInCreationOrder ==
    (InCreatepr /\ Batch /\ GITHUB_TOKEN) =>
        /\ \A key \in {"fe", "be"} : InCreationOrder(notifications[key].urls)
        /\ \A j \in 1..Len(trace) :
            trace[j].op = "send_message" => InCreationOrder(trace[j].arg.message.urls)
\* the frontend message names the pull request of A before that of C
C25_Witness ==
    /\ InCreatepr /\ Batch /\ pc = "done"
    /\ REPOSITORIES = <<RepoA, RepoB, RepoC>>
    /\ FE_REPOSITORIES = <<RepoA, RepoC>>
    /\ \E j \in 1..Len(trace) :
        /\ trace[j].op = "send_message"
        /\ trace[j].arg.message.urls = <<PrUrl(RepoA), PrUrl(RepoC)>>

\* the URL lines of the message sent to an audience (none when none was sent)
SentUrls(key) ==
    LET Is(e) == /\ e.op = "send_message"
                 /\ IF key = "fe" THEN e.arg.tag_fe ELSE e.arg.tag_be
        sends == SelectSeq(trace, Is)
    IN IF sends = <<>> THEN <<>> ELSE sends[1].arg.message.urls
Occurrences(url, urls) == Cardinality({i \in 1..Len(urls) : urls[i] = url})
ReturnedUrls ==
    {trace[j].res : j \in {k \in 1..Len(trace) :
        trace[k].op = "create_pull_request" /\ trace[k].res # NoUrl}}

\* C26: when a batch createpr run has ended, the URL returned by each
\* successful create call stands exactly once in the message sent to the
\* audience of its repository and not at all in the other message; and at
\* any time every URL in a message sent is one that a create call of this
\* run returned.
C26_EachUrlOnceInItsMessage ==
    (InCreatepr /\ Batch /\ GITHUB_TOKEN) =>
        /\ pc = "done" =>
            \A j \in 1..Len(trace) :
                (trace[j].op = "create_pull_request" /\ trace[j].res # NoUrl) =>
                    LET own == IF trace[j].repo \in FrontendSet THEN "fe" ELSE "be"
                        other == IF own = "fe" THEN "be" ELSE "fe"
                    IN /\ Occurrences(trace[j].res, SentUrls(own)) = 1
                       /\ Occurrences(trace[j].res, SentUrls(other)) = 0
        /\ \A key \in {"fe", "be"} :
            \A i \in 1..Len(SentUrls(key)) : SentUrls(key)[i] \in ReturnedUrls
\* three pull requests: those of A and C in the frontend message, that of
\* B in the backend message
C26_Witness ==
    /\ InCreatepr /\ Batch /\ pc = "done"
    /\ REPOSITORIES = <<RepoA, RepoB, RepoC>>
    /\ FE_REPOSITORIES = <<RepoA, RepoC>>
    /\ ReturnedUrls = {PrUrl(RepoA), PrUrl(RepoB), PrUrl(RepoC)}
    /\ SentUrls("fe") = <<PrUrl(RepoA), PrUrl(RepoC)>>
    /\ SentUrls("be") = <<PrUrl(RepoB)>>

\* the repositories whose pull requests a message names
ReposOf(message) ==
    {trace[CreatedAt(message.urls[i])].repo : i \in 1..Len(message.urls)}

\* C27: every text createpr posts is prefixed with the mentions of one
\* audience's developers, the audience of the pull requests it names: the
\* configured frontend developers and no others for a message about
\* frontend repositories, the configured backend developers and no others
\* for a message about the other repositories.
C27_MentionsOwnAudience ==
    InCreatepr =>
        \A j \in 1..Len(trace) :
            trace[j].op = "requests.post" =>
                LET repos == ReposOf(trace[j].arg.message)
                IN /\ repos # {}
                   /\ \/ repos \subseteq FrontendSet
                      \/ repos \cap FrontendSet = {}
                   /\ trace[j].arg.mentions =
                        IF repos \subseteq FrontendSet
                        THEN <<"U_FE1">> ELSE <<"U_BE1", "U_BE2">>
\* a run that posted a message to each audience
C27_Witness ==
    /\ InCreatepr /\ Batch /\ pc = "done"
    /\ FE_REPOSITORIES = <<RepoA, RepoC>>
    /\ Len(Events("requests.post")) = 2
    /\ Events("requests.post")[1].arg.mentions = SLACK_FE_DEVELOPERS
    /\ Events("requests.post")[1].arg.message.urls = <<PrUrl(RepoA), PrUrl(RepoC)>>
    /\ Events("requests.post")[2].arg.mentions = SLACK_BE_DEVELOPERS
    /\ Events("requests.post")[2].arg.message.urls = <<PrUrl(RepoB)>>

(***************************************************************************)
(* Properties of the repositories a batch works on.                        *)
(***************************************************************************)
\* the identifiers the REPOSITORIES setting names
Configured == {REPOSITORIES[j] : j \in 1..Len(REPOSITORIES)} \ {<<>>}

\* C28: a batch run of check or createpr calls the hosting service only
\* for configured identifiers, which are not empty; when it has ended it
\* has made as many comparisons as repositories are configured, so none at
\* all when the setting is not given.
C28_OnlyConfiguredRepositories ==
    (command.handler \in {"check", "createpr"} /\ Batch /\ GITHUB_TOKEN) =>
        /\ \A j \in 1..Len(trace) :
            trace[j].op \in GitHubOps => trace[j].repo \in Configured
        /\ pc = "done" =>
            Len(Events("get_pending_commits")) = Cardinality(Configured)

\* C29: every comparison and every create call of check and createpr is
\* made with a base branch name and a head branch name that are not empty,
\* whatever compare spec was typed.
C29_BranchNamesNotEmpty ==
    (command.handler \in {"check", "createpr"} /\ GITHUB_TOKEN) =>
        \A j \in BranchCalls :
            trace[j].arg.base # <<>> /\ trace[j].arg.head # <<>>

(***************************************************************************)
(* Properties of the preset table.                                         *)
(***************************************************************************)
\* C30: WORKFLOW_PRESETS is never changed: whatever -i inputs a preset
\* command was run with, the table is the one the module was loaded with,
\* so every preset command of the session, the later ones too, triggers its
\* workflow with the table's inputs for its preset and environment
\* overridden by its own -i tokens only.
C30_PresetTableUnchanged ==
    /\ WORKFLOW_PRESETS = PresetTable
    /\ (command.handler \in PresetNames /\ GITHUB_TOKEN) =>
        \A j \in 1..Len(trace) :
            trace[j].op = "trigger_workflow" =>
                LET d == trace[j].arg.inputs.val
                    start == PresetTable[command.handler][command.environment].inputs
                IN /\ \A i \in 1..Len(start) :
                        /\ start[i][1] \in DictKeys(d)
                        /\ start[i][1] \notin {KeyOf(command.input[t]) : t \in ValidTokens}
                            => d[i] = start[i]
                   /\ ValidTokens = {} => d = start
\* deploy staging -i region=us has triggered the workflow with the region
\* us, and the table still says eu
C30_Witness ==
    /\ command.handler = "deploy"
    /\ command.environment = "staging"
    /\ command.input = << Region \o <<"=", "u", "s">> >>
    /\ Len(Events("trigger_workflow")) = 1
    /\ Events("trigger_workflow")[1].arg.inputs.val[1] = <<Region, <<"u", "s">>>>
    /\ WORKFLOW_PRESETS.deploy.staging.inputs[1] = <<Region, <<"e", "u">>>>

====
